---- MODULE Spec2Model ----
(***************************************************************************)
(* Model of the answer-equivalence evaluator of Real-Matrix                *)
(* (code/evaluator.py): normalize_answer, extract_number_and_unit,         *)
(* convert_to_base_unit and answers_match.                                 *)
(*                                                                         *)
(* A Python str is a sequence of one-character strings.  A Python float is *)
(* an IEEE-754 double, kept exactly: a record [man, exp] whose value is    *)
(* int(man) * 2^exp, man being the bits of an odd integer below 2^53 (most *)
(* significant bit first) or <<>> for 0.0.  Every arithmetic step rounds   *)
(* to nearest, ties to even, as the hardware does.                         *)
(***************************************************************************)
EXTENDS Integers, Sequences, FiniteSets, TLC

\* Python's None, where a str is expected and where a float is expected
None == <<"None">>
NoneNum == [man |-> <<-1>>, exp |-> 0]

\* F applied to v: gives the value v a name within F (v is computed first)
With(v, F(_)) == CHOOSE r \in {F(x) : x \in {v}} : TRUE

Max(x, y) == IF x >= y THEN x ELSE y
Min(x, y) == IF x <= y THEN x ELSE y

RECURSIVE Pow10(_)
Pow10(k) == IF k = 0 THEN 1 ELSE 10 * Pow10(k - 1)

(***************************************************************************)
(* Unsigned integers of any size as bit sequences, most significant first. *)
(***************************************************************************)
Zeros(k) == [i \in 1..k |-> 0]

\* the number of bits of n, 0 <= n < 2^31
BitLength(n) == Cardinality({k \in 0..30 : 2 ^ k <= n})

IntToBits(n) ==
    <<>> \o [k \in 1..BitLength(n) |-> (n \div 2 ^ (BitLength(n) - k)) % 2]

FirstOne(bits) ==
    IF \A i \in 1..Len(bits) : bits[i] = 0 THEN 0
    ELSE CHOOSE i \in 1..Len(bits) :
             bits[i] = 1 /\ \A j \in 1..(i - 1) : bits[j] = 0

LastOne(bits) ==
    IF \A i \in 1..Len(bits) : bits[i] = 0 THEN 0
    ELSE CHOOSE i \in 1..Len(bits) :
             bits[i] = 1 /\ \A j \in (i + 1)..Len(bits) : bits[j] = 0

StripLeft(bits) ==
    IF FirstOne(bits) = 0 THEN <<>>
    ELSE SubSeq(bits, FirstOne(bits), Len(bits))

\* the arithmetic below takes w bits at a time, w one of 4, 8 and 16
RoundUp(n, w) == ((n + w - 1) \div w) * w
PadLeft(bits, n) == Zeros(n - Len(bits)) \o bits
PadTo(bits, w) == PadLeft(bits, RoundUp(Len(bits), w))

NibbleAt(bits, i) ==
    8 * bits[i] + 4 * bits[i + 1] + 2 * bits[i + 2] + bits[i + 3]

ChunkAt(bits, i, w) ==
    IF w = 4 THEN NibbleAt(bits, i)
    ELSE IF w = 8 THEN 16 * NibbleAt(bits, i) + NibbleAt(bits, i + 4)
    ELSE 4096 * NibbleAt(bits, i) + 256 * NibbleAt(bits, i + 4)
         + 16 * NibbleAt(bits, i + 8) + NibbleAt(bits, i + 12)

ChunkBits(v, w) == [k \in 1..w |-> (v \div 2 ^ (w - k)) % 2]

\* the widest chunk whose product with a number below c stays below 2^31
ChunkWidth(c) == IF c < 2 ^ 15 THEN 16 ELSE IF c < 2 ^ 23 THEN 8 ELSE 4

\* x < y, for sequences of the same length
BitsLess(x, y) ==
    \E i \in 1..Len(x) :
        x[i] < y[i] /\ \A j \in 1..(i - 1) : x[j] = y[j]

\* x - y for sequences of the same length (a multiple of 16) with x >= y:
\* the chunks from index i on, and the borrow out of them
SubBorrow(v, lobits) ==
    [borrow |-> IF v < 0 THEN 1 ELSE 0,
     bits   |-> ChunkBits(v % 65536, 16) \o lobits]

RECURSIVE SubFrom(_, _, _)
SubFrom(x, y, i) ==
    IF i > Len(x) THEN [bits |-> <<>>, borrow |-> 0]
    ELSE With(SubFrom(x, y, i + 16), LAMBDA lo :
             SubBorrow(ChunkAt(x, i, 16) - ChunkAt(y, i, 16) - lo.borrow,
                       lo.bits))

SubBits(x, y) == SubFrom(x, y, 1).bits

\* bits * c for a positive integer c below 2^27, bits a multiple of w long:
\* the chunks from index i on, and the carry out of them (add, below c, is
\* carried into the lowest chunk)
MulCarry(v, w, lobits) ==
    [carry |-> v \div 2 ^ w, bits |-> ChunkBits(v % 2 ^ w, w) \o lobits]

RECURSIVE MulFrom(_, _, _, _, _)
MulFrom(bits, c, w, i, add) ==
    IF i > Len(bits) THEN [bits |-> <<>>, carry |-> add]
    ELSE With(MulFrom(bits, c, w, i + w, add), LAMBDA lo :
             MulCarry(ChunkAt(bits, i, w) * c + lo.carry, w, lo.bits))

\* bits * c + add
MulAddBits(bits, c, add) ==
    With(MulFrom(PadTo(bits, ChunkWidth(c)), c, ChunkWidth(c), 1, add),
         LAMBDA m : IntToBits(m.carry) \o m.bits)

\* bits * c; a large multiple of 1000 is taken in two steps, which keeps
\* the chunks wide
RECURSIVE MulBits(_, _)
MulBits(bits, c) ==
    IF c >= 2 ^ 15 /\ c % 1000 = 0
    THEN With(MulAddBits(bits, 1000, 0), LAMBDA p : MulBits(p, c \div 1000))
    ELSE MulAddBits(bits, c, 0)

\* long division of bits (a multiple of w long) by a positive integer d
\* below 2^27, from index i on with remainder r carried in: quotient bits,
\* remainder
RECURSIVE DivFrom(_, _, _, _, _)
DivRest(r2, d, w, rest) ==
    [r |-> rest.r, q |-> ChunkBits(r2 \div d, w) \o rest.q]

DivStep(bits, d, w, i, r2) ==
    With(DivFrom(bits, d, w, i + w, r2 % d), LAMBDA rest :
        DivRest(r2, d, w, rest))

DivFrom(bits, d, w, i, r) ==
    IF i > Len(bits) THEN [q |-> <<>>, r |-> r]
    ELSE DivStep(bits, d, w, i, 2 ^ w * r + ChunkAt(bits, i, w))

DivWide(bits, d) ==
    DivFrom(PadTo(bits, ChunkWidth(d)), d, ChunkWidth(d), 1, 0)

\* quotient and remainder by 10000 * d, from those by 10000 and then by d
DivJoin(r1, hi) == [q |-> hi.q, r |-> hi.r * 10000 + r1]

\* bits divided by d: quotient bits (with leading zeros) and remainder; a
\* large multiple of 10000 is taken in two steps, which keeps the chunks wide
RECURSIVE DivBits(_, _)
DivTwice(lo, d) == DivJoin(lo.r, DivBits(lo.q, d))

DivBits(bits, d) ==
    IF d >= 2 ^ 15 /\ d % 10000 = 0
    THEN With(DivWide(bits, 10000), LAMBDA lo : DivTwice(lo, d \div 10000))
    ELSE DivWide(bits, d)

\* bits + 1
IncBits(bits) ==
    With(CHOOSE j \in 0..Len(bits) :
             /\ j = 0 \/ bits[j] = 0
             /\ \A k \in (j + 1)..Len(bits) : bits[k] = 1,
         LAMBDA z :
             IF z = 0 THEN <<1>> \o Zeros(Len(bits))
             ELSE [k \in 1..Len(bits) |->
                      IF k < z THEN bits[k] ELSE IF k = z THEN 1 ELSE 0])

\* decimal digits (as characters) of an unsigned integer
DigitChars == <<"0", "1", "2", "3", "4", "5", "6", "7", "8", "9">>

\* the integer of at most 30 bits
BitsToInt(bits) ==
    65536 * ChunkAt(PadLeft(bits, 32), 1, 16)
    + ChunkAt(PadLeft(bits, 32), 17, 16)

\* the number of decimal digits of n, 0 for 0
DigitCount(n) == Cardinality({k \in 0..9 : 10 ^ k <= n})

\* the last count decimal digits of n
LastDigits(n, count) ==
    <<>> \o [k \in 1..count |->
                DigitChars[((n \div 10 ^ (count - k)) % 10) + 1]]

\* four decimal digits at a time
RECURSIVE BitsToDecimal(_)
DecimalStep(d) == BitsToDecimal(d.q) \o LastDigits(d.r, 4)

DecimalOf(b) ==
    IF Len(b) <= 30 THEN LastDigits(BitsToInt(b), DigitCount(BitsToInt(b)))
    ELSE With(DivBits(b, 10000), LAMBDA d : DecimalStep(d))

BitsToDecimal(bits) == DecimalOf(StripLeft(bits))

(***************************************************************************)
(* IEEE-754 double precision, round to nearest even.  Magnitudes stay far  *)
(* from the subnormal and overflow ranges for the inputs of the model.     *)
(***************************************************************************)
MantissaBits == 53

FZero == [man |-> <<>>, exp |-> 0]

\* inf, the value of a float() or a product above the largest double
Inf == [man |-> <<1>>, exp |-> 1024]

\* the first MantissaBits bits of b, a longer sequence that starts with 1,
\* rounded to nearest, ties to even (the result may be one bit longer)
RoundedMantissa(b, sticky) ==
    IF /\ b[MantissaBits + 1] = 1
       /\ \/ sticky
          \/ \E i \in (MantissaBits + 2)..Len(b) : b[i] = 1
          \/ b[MantissaBits] = 1
    THEN IncBits(SubSeq(b, 1, MantissaBits))
    ELSE SubSeq(b, 1, MantissaBits)

\* the double nearest to int(bits) * 2^exp (+ a nonzero tail when sticky)
FRound(bits, exp, sticky) ==
    With(StripLeft(bits), LAMBDA b :
        IF b = <<>> THEN FZero
        ELSE IF Len(b) <= MantissaBits
        THEN [man |-> SubSeq(b, 1, LastOne(b)),
              exp |-> exp + (Len(b) - LastOne(b))]
        ELSE With(RoundedMantissa(b, sticky), LAMBDA r :
                 [man |-> SubSeq(r, 1, LastOne(r)),
                  exp |-> exp + (Len(b) - MantissaBits) + (Len(r) - LastOne(r))]))

FFromInt(n) == FRound(IntToBits(n), 0, FALSE)

\* x * c, c a small positive integer
FMul(x, c) ==
    IF x = Inf THEN Inf
    ELSE With(MulBits(x.man, c), LAMBDA p : FRound(p, x.exp, FALSE))

\* x / d, d a small positive integer
FDiv(x, d) ==
    IF x = Inf THEN Inf
    ELSE IF x.man = <<>> THEN FZero
    ELSE With(Max(0, MantissaBits + 3 + BitLength(d) - Len(x.man)),
              LAMBDA extra :
         With(DivBits(x.man \o Zeros(extra), d), LAMBDA qr :
             FRound(qr.q, x.exp - extra, qr.r # 0)))

\* the two mantissas as integers over the common exponent, equal length
FAlign(x, y) ==
    With(Min(x.exp, y.exp), LAMBDA e :
    With(RoundUp(Max(Len(x.man) + x.exp - e, Len(y.man) + y.exp - e), 16),
         LAMBDA n :
        [x   |-> PadLeft(x.man \o Zeros(x.exp - e), n),
         y   |-> PadLeft(y.man \o Zeros(y.exp - e), n),
         exp |-> e]))

FLess(x, y) ==
    IF y.man = <<>> THEN FALSE
    ELSE IF x.man = <<>> THEN TRUE
    ELSE With(FAlign(x, y), LAMBDA a : BitsLess(a.x, a.y))

\* x + y for sequences of the same length (a multiple of 16): the chunks from
\* index i on, and the carry out of them
AddCarry(v, lobits) ==
    [carry |-> v \div 65536, bits |-> ChunkBits(v % 65536, 16) \o lobits]

RECURSIVE AddFrom(_, _, _)
AddFrom(x, y, i) ==
    IF i > Len(x) THEN [bits |-> <<>>, carry |-> 0]
    ELSE With(AddFrom(x, y, i + 16), LAMBDA lo :
             AddCarry(ChunkAt(x, i, 16) + ChunkAt(y, i, 16) + lo.carry,
                      lo.bits))

AddBits(x, y) == With(AddFrom(x, y, 1), LAMBDA r : <<r.carry>> \o r.bits)

\* x + y for non-negative x, y
FAdd(x, y) ==
    IF x.man = <<>> THEN y
    ELSE IF y.man = <<>> THEN x
    ELSE With(FAlign(x, y), LAMBDA a :
             FRound(AddBits(a.x, a.y), a.exp, FALSE))

\* abs(x - y) for non-negative x, y
FAbsDiff(x, y) ==
    IF x.man = <<>> THEN y
    ELSE IF y.man = <<>> THEN x
    ELSE With(FAlign(x, y), LAMBDA a :
             IF BitsLess(a.x, a.y)
             THEN FRound(SubBits(a.y, a.x), a.exp, FALSE)
             ELSE FRound(SubBits(a.x, a.y), a.exp, FALSE))

\* num == int(num)
FIsIntegral(x) == x.exp >= 0

\* str(int(num)) for an integral num
FIntStr(x) ==
    IF x.man = <<>> THEN <<"0">>
    ELSE BitsToDecimal(x.man \o Zeros(x.exp))

RECURSIVE RStrip(_, _)
RStrip(s, c) ==
    IF s # <<>> /\ s[Len(s)] = c THEN RStrip(SubSeq(s, 1, Len(s) - 1), c)
    ELSE s

\* int(x.man) * 10^6 * 2^x.exp as an integer and a count of fractional bits:
\* the bits, with a leading zero, at least one bit before the fraction
Scaled6(x) ==
    IF x.exp >= 0 THEN <<0>> \o MulBits(x.man, 1000000) \o Zeros(x.exp)
    ELSE With(MulBits(x.man, 1000000), LAMBDA scaled :
             PadLeft(scaled, Max(Len(scaled), 1 - x.exp)))

\* whole without its last shift bits, rounded to nearest, ties to even
RoundHalfEven(whole, shift) ==
    With(SubSeq(whole, 1, Len(whole) - shift), LAMBDA ipart :
        IF /\ shift > 0
           /\ whole[Len(whole) - shift + 1] = 1
           /\ \/ \E i \in (Len(whole) - shift + 2)..Len(whole) : whole[i] = 1
              \/ ipart[Len(ipart)] = 1
        THEN IncBits(ipart)
        ELSE ipart)

\* at least seven digits
PadDigits(dec) ==
    IF Len(dec) < 7 THEN [i \in 1..(7 - Len(dec)) |-> "0"] \o dec ELSE dec

\* f"{num:.6f}": num times 10^6 rounded to an integer (ties to even), the
\* decimal point put before its last six digits
PointBeforeLast6(digs) ==
    SubSeq(digs, 1, Len(digs) - 6) \o <<".">>
        \o SubSeq(digs, Len(digs) - 5, Len(digs))

Fixed6(x) ==
    With(Scaled6(x), LAMBDA scaled :
    With(RoundHalfEven(scaled, IF x.exp < 0 THEN 0 - x.exp ELSE 0),
         LAMBDA whole :
    With(BitsToDecimal(whole), LAMBDA dec : PointBeforeLast6(PadDigits(dec)))))

\* the final rstrip('.') left out
FFormat6KeepDot(x) == With(Fixed6(x), LAMBDA f : RStrip(f, "0"))

\* f"{num:.6f}".rstrip('0').rstrip('.')
FFormat6(x) == With(Fixed6(x), LAMBDA f : RStrip(RStrip(f, "0"), "."))

(***************************************************************************)
(* Python str operations and the regular expressions of evaluator.py.      *)
(***************************************************************************)
Digits == {"0", "1", "2", "3", "4", "5", "6", "7", "8", "9"}
Space == " "

DigitVal(c) ==
    CASE c = "0" -> 0 [] c = "1" -> 1 [] c = "2" -> 2 [] c = "3" -> 3
      [] c = "4" -> 4 [] c = "5" -> 5 [] c = "6" -> 6 [] c = "7" -> 7
      [] c = "8" -> 8 [] c = "9" -> 9

\* str.lower() of one character
LowerChar(c) ==
    CASE c = "A" -> "a" [] c = "B" -> "b" [] c = "C" -> "c" [] c = "D" -> "d"
      [] c = "E" -> "e" [] c = "F" -> "f" [] c = "G" -> "g" [] c = "H" -> "h"
      [] c = "I" -> "i" [] c = "J" -> "j" [] c = "K" -> "k" [] c = "L" -> "l"
      [] c = "M" -> "m" [] c = "N" -> "n" [] c = "O" -> "o" [] c = "P" -> "p"
      [] c = "Q" -> "q" [] c = "R" -> "r" [] c = "S" -> "s" [] c = "T" -> "t"
      [] c = "U" -> "u" [] c = "V" -> "v" [] c = "W" -> "w" [] c = "X" -> "x"
      [] c = "Y" -> "y" [] c = "Z" -> "z" [] OTHER -> c

\* str.lower()
Lower(s) == [i \in 1..Len(s) |-> LowerChar(s[i])]

\* s[i:]
From(s, i) == SubSeq(s, i, Len(s))

\* the literal lit (lower case) matches s at index i, ignoring case
MatchesAt(s, i, lit) ==
    /\ i + Len(lit) - 1 <= Len(s)
    /\ \A k \in 1..Len(lit) : LowerChar(s[i + k - 1]) = lit[k]

\* the index after the run of whitespace that starts at index i
SkipSpaces(s, i) ==
    CHOOSE j \in i..(Len(s) + 1) :
        /\ \A k \in i..(j - 1) : s[k] = Space
        /\ j = Len(s) + 1 \/ s[j] # Space

\* the index where the run of whitespace that ends before index i starts
SkipSpacesBack(s, i) ==
    CHOOSE j \in 1..i :
        /\ \A k \in j..(i - 1) : s[k] = Space
        /\ j = 1 \/ s[j - 1] # Space

\* str.strip()
Strip(s) ==
    IF SkipSpaces(s, 1) > Len(s) THEN <<>>
    ELSE SubSeq(s, SkipSpaces(s, 1), SkipSpacesBack(s, Len(s) + 1) - 1)

\* the index after the word that starts at index start
WordEnd(s, start) ==
    CHOOSE j \in (start + 1)..(Len(s) + 1) :
        /\ \A k \in start..(j - 1) : s[k] # Space
        /\ j = Len(s) + 1 \/ s[j] = Space

\* ' '.join(s.split()): the words of s from index i on, one space between
RECURSIVE JoinSplit(_, _)
JoinSplit(s, i) ==
    With(SkipSpaces(s, i), LAMBDA start :
        IF start > Len(s) THEN <<>>
        ELSE With(WordEnd(s, start), LAMBDA stop :
             With(JoinSplit(s, stop), LAMBDA rest :
                 IF rest = <<>> THEN SubSeq(s, start, stop - 1)
                 ELSE SubSeq(s, start, stop - 1) \o <<Space>> \o rest)))

\* re.sub(r'^\$', '', s)
StripDollar(s) == IF s # <<>> /\ s[1] = "$" THEN Tail(s) ELSE s

\* re.sub(r'^USD\s*', '', s, flags=re.IGNORECASE)
StripUSD(s) ==
    IF MatchesAt(s, 1, <<"u", "s", "d">>) THEN From(s, SkipSpaces(s, 4)) ELSE s

\* the alternatives of (dollars?|USD|units?), longest spelling first
SuffixWords ==
    << <<"d", "o", "l", "l", "a", "r", "s">>, <<"d", "o", "l", "l", "a", "r">>,
       <<"u", "s", "d">>,
       <<"u", "n", "i", "t", "s">>, <<"u", "n", "i", "t">> >>

\* the alternatives of SuffixWords that end s
SuffixEnds(s) ==
    {w \in 1..Len(SuffixWords) :
        /\ Len(SuffixWords[w]) <= Len(s)
        /\ MatchesAt(s, Len(s) - Len(SuffixWords[w]) + 1, SuffixWords[w])}

\* re.sub(r'\s*(dollars?|USD|units?)$', '', s, flags=re.IGNORECASE): the
\* leftmost match starts at the whitespace run before the word that ends s
StripSuffix(s) ==
    With(SuffixEnds(s), LAMBDA ends :
        IF ends = {} THEN s
        ELSE With(CHOOSE v \in ends : \A u \in ends : v <= u, LAMBDA w :
                 SubSeq(s, 1,
                        SkipSpacesBack(s, Len(s) - Len(SuffixWords[w]) + 1) - 1)))

\* the alternatives of the unit group of normalize_answer's pattern, in the
\* order the pattern lists them; an optional part (\^?, 2?, s?) is greedy, so
\* the spelling that takes it comes first
UnitAlternatives ==
    << <<"m", "m">>, <<"c", "m">>, <<"m">>, <<"k", "m">>, <<"k", "g">>,
       <<"g">>, <<"m", "g">>, <<"s">>, <<"m", "s">>,
       <<"r", "a", "d", "/", "s", "^", "2">>, <<"r", "a", "d", "/", "s", "^">>,
       <<"r", "a", "d", "/", "s", "2">>, <<"r", "a", "d", "/", "s">>,
       <<"m", "/", "s", "^", "2">>, <<"m", "/", "s", "^">>,
       <<"m", "/", "s", "2">>, <<"m", "/", "s">>,
       <<"m", "/", "s">>,
       <<"n">>, <<"j">>, <<"w">>, <<"h", "z">>, <<"°">>,
       <<"d", "e", "g", "r", "e", "e", "s">>, <<"d", "e", "g", "r", "e", "e">> >>

\* extract_number_and_unit's pattern repeats two alternatives at the end
ExtractUnitAlternatives == UnitAlternatives \o << <<"c", "m">>, <<"m", "m">> >>

NoMatch == [found |-> FALSE, num |-> <<>>, unit |-> <<>>, hasUnit |-> FALSE]

\* [\d.]
IsNumberChar(c) == c \in Digits \/ c = "."

\* the first digit or dot of s
NumberStart(s) ==
    CHOOSE i \in 1..Len(s) :
        IsNumberChar(s[i]) /\ \A j \in 1..(i - 1) : ~IsNumberChar(s[j])

\* the index after the run of digits and dots that starts at index start
NumberStop(s, start) ==
    CHOOSE j \in (start + 1)..(Len(s) + 1) :
        /\ \A k \in start..(j - 1) : IsNumberChar(s[k])
        /\ j = Len(s) + 1 \/ ~IsNumberChar(s[j])

\* the first alternative that matches s at index at, or 0
FirstAlternative(s, at, alternatives) ==
    With({a \in 1..Len(alternatives) : MatchesAt(s, at, alternatives[a])},
         LAMBDA alts :
             IF alts = {} THEN 0
             ELSE CHOOSE v \in alts : \A u \in alts : v <= u)

\* the match object: group 1 is s[start..stop-1], group 2 starts at index at
NumberUnitGroups(s, alternatives, start, stop, at) ==
    With(FirstAlternative(s, at, alternatives), LAMBDA a :
        [found   |-> TRUE,
         num     |-> SubSeq(s, start, stop - 1),
         unit    |-> IF a = 0 THEN <<>>
                     ELSE SubSeq(s, at, at + Len(alternatives[a]) - 1),
         hasUnit |-> a # 0])

\* the pattern without \s* between the number and the unit
NumberUnitSearchNoSpace(s, alternatives) ==
    IF \A i \in 1..Len(s) : ~IsNumberChar(s[i]) THEN NoMatch
    ELSE With(NumberStart(s), LAMBDA start :
         With(NumberStop(s, start), LAMBDA stop :
             NumberUnitGroups(s, alternatives, start, stop, stop)))

\* re.search(r'([\d.]+)\s*(alt1|alt2|...)?', s, re.IGNORECASE): the match
\* starts at the first digit or dot, group 1 is the whole run of digits and
\* dots, group 2 the first alternative that matches after the whitespace
NumberUnitSearch(s, alternatives) ==
    IF \A i \in 1..Len(s) : ~IsNumberChar(s[i]) THEN NoMatch
    ELSE With(NumberStart(s), LAMBDA start :
         With(NumberStop(s, start), LAMBDA stop :
             NumberUnitGroups(s, alternatives, start, stop,
                              SkipSpaces(s, stop))))

(***************************************************************************)
(* float(), int() and the number formatting of normalize_answer.           *)
(***************************************************************************)
\* the unsigned integer written by a sequence of digits
DigitAt(digits, k) ==
    IF k <= Len(digits)
    THEN DigitVal(digits[Len(digits) - k + 1]) * 10 ^ (k - 1)
    ELSE 0

\* the integer written by at most nine digits
IntOfDigits(digits) ==
    DigitAt(digits, 1) + DigitAt(digits, 2) + DigitAt(digits, 3)
    + DigitAt(digits, 4) + DigitAt(digits, 5) + DigitAt(digits, 6)
    + DigitAt(digits, 7) + DigitAt(digits, 8) + DigitAt(digits, 9)

\* four digits at a time
RECURSIVE DecimalToBits(_)
DecimalToBits(digits) ==
    IF Len(digits) <= 9 THEN IntToBits(IntOfDigits(digits))
    ELSE MulAddBits(DecimalToBits(SubSeq(digits, 1, Len(digits) - 4)),
                    10000,
                    IntOfDigits(SubSeq(digits, Len(digits) - 3, Len(digits))))

ValueError == [ok |-> FALSE, val |-> NoneNum]

\* digits[.digits] or .digits
IsNumeral(s) ==
    /\ s # <<>>
    /\ \A i \in 1..Len(s) : IsNumberChar(s[i])
    /\ Cardinality({i \in 1..Len(s) : s[i] = "."}) <= 1
    /\ \E i \in 1..Len(s) : s[i] \in Digits

\* the index of the decimal point of a numeral, Len(s) + 1 if it has none
DotIndex(s) ==
    IF \A i \in 1..Len(s) : s[i] # "." THEN Len(s) + 1
    ELSE CHOOSE i \in 1..Len(s) : s[i] = "."

\* the digits of the integer part of a numeral, from its first nonzero digit
IntegerDigits(s) ==
    Cardinality({i \in 1..(DotIndex(s) - 1) :
                    \E j \in 1..i : s[j] # "0"})

\* a numeral with more digits than this before the point is above the
\* largest double (1.8 * 10^308), and float() gives inf
MaxDecimalDigits == 309

\* the double nearest to a numeral: its digits as an integer, divided by the
\* power of ten of its fractional digits (both steps are exact or correctly
\* rounded while the integer stays below 2^53)
FloatOfNumeral(s) ==
    IF IntegerDigits(s) > MaxDecimalDigits THEN Inf
    ELSE
    With(DotIndex(s), LAMBDA dot :
    With(FRound(DecimalToBits(SubSeq(s, 1, dot - 1) \o From(s, dot + 1)),
                0, FALSE),
         LAMBDA n :
             IF dot >= Len(s) THEN n ELSE FDiv(n, Pow10(Len(s) - dot))))

\* float(s).  Of the spellings float() accepts, the strings that reach it in
\* evaluator.py can only have the form digits[.digits] or .digits, with
\* whitespace around: a sign, an exponent or an underscore never comes before
\* or inside the first run of digits and dots that decides the call, and the
\* words inf and nan are not among the answers.
PyFloat(str) ==
    With(Strip(str), LAMBDA s :
        IF IsNumeral(s) THEN [ok |-> TRUE, val |-> FloatOfNumeral(s)]
        ELSE ValueError)

\* str(int(s)) for a str s, or ValueError
PyIntStr(str) ==
    With(Strip(str), LAMBDA s :
        IF s = <<>> \/ \E i \in 1..Len(s) : s[i] \notin Digits
        THEN [ok |-> FALSE, str |-> <<>>]
        ELSE With(BitsToDecimal(DecimalToBits(s)), LAMBDA b :
                 [ok |-> TRUE, str |-> IF b = <<>> THEN <<"0">> ELSE b]))

\* int(inf) raises OverflowError, which no except clause of evaluator.py
\* catches: the call that made it ends with the exception
OverflowError == <<"OverflowError">>

\* evaluator.py lines 62-66 (and 74-77): str(int(num)) for an integral num,
\* else f"{num:.6f}".rstrip('0').rstrip('.'); int(num) raises for inf
FormatNumber(num) ==
    IF num = Inf THEN OverflowError
    ELSE IF FIsIntegral(num) THEN FIntStr(num) ELSE FFormat6(num)

(***************************************************************************)
(* evaluator.py                                                            *)
(***************************************************************************)
NumericTypes == {"integer", "float"}
AnswerTypes == {"integer", "float", "string"}

\* normalize_answer, lines 40-56: the conversion to base units
NormalizeUnit(num, unit_lower) ==
    IF unit_lower = <<"k", "m">> THEN FMul(num, 1000)
    ELSE IF unit_lower = <<"c", "m">> THEN FDiv(num, 100)
    ELSE IF unit_lower = <<"m", "m">> THEN FDiv(num, 1000)
    ELSE IF unit_lower = <<"g">> THEN FDiv(num, 1000)
    ELSE IF unit_lower = <<"m", "g">> THEN FDiv(num, 1000000)
    ELSE IF unit_lower = <<"m", "s">> THEN FDiv(num, 1000)
    ELSE num

\* normalize_answer, lines 29-82: the numeric branch
NormalizeNumeric(answer) ==
    With(NumberUnitSearch(answer, UnitAlternatives), LAMBDA unit_match :
        IF unit_match.found
        THEN With(PyFloat(unit_match.num), LAMBDA num :
                 IF ~num.ok THEN answer
                 ELSE IF unit_match.hasUnit
                 THEN With(NormalizeUnit(num.val, Lower(unit_match.unit)),
                           LAMBDA base : FormatNumber(base))
                 ELSE FormatNumber(num.val))
        ELSE IF \E i \in 1..Len(answer) : answer[i] = "."
        THEN With(PyFloat(answer), LAMBDA num :
                 IF num.ok THEN FormatNumber(num.val) ELSE answer)
        ELSE With(PyIntStr(answer), LAMBDA num :
                 IF num.ok THEN num.str ELSE answer))

\* normalize_answer, lines 16-26: whitespace, currency markers and suffixes
Cleaned(answer) ==
    JoinSplit(StripSuffix(StripUSD(StripDollar(Strip(answer)))), 1)

\* normalization that keeps the letter case
NormalizeKeepCase(answer, answer_type) ==
    IF answer = <<>> THEN <<>>
    ELSE IF answer_type \in NumericTypes
    THEN With(Cleaned(answer), LAMBDA cleaned : NormalizeNumeric(cleaned))
    ELSE Cleaned(answer)

normalize_answer(answer, answer_type) ==
    IF answer = <<>> THEN <<>>
    ELSE IF answer_type \in NumericTypes
    THEN With(Cleaned(answer), LAMBDA cleaned :
         With(NormalizeNumeric(cleaned), LAMBDA text :
             IF text = OverflowError THEN OverflowError ELSE Lower(text)))
    ELSE Lower(Cleaned(answer))

extract_number_and_unit(answer) ==
    With(NumberUnitSearch(answer, ExtractUnitAlternatives), LAMBDA match :
    With(IF match.found THEN PyFloat(match.num) ELSE ValueError,
         LAMBDA first :
             IF first.ok
             THEN [num  |-> first.val,
                   unit |-> IF match.hasUnit THEN Lower(match.unit) ELSE None]
             ELSE With(PyFloat(Strip(answer)), LAMBDA plain :
                      IF plain.ok THEN [num |-> plain.val, unit |-> None]
                      ELSE [num |-> NoneNum, unit |-> None])))

\* Python truth value of a unit: None and '' are false
Truthy(unit) == unit # None /\ unit # <<>>

\* the unit compared without unit.lower()
ConvertCaseSensitive(value, unit) ==
    IF ~Truthy(unit) THEN value
    ELSE IF unit = <<"k", "m">> THEN FMul(value, 1000)
    ELSE IF unit = <<"c", "m">> THEN FDiv(value, 100)
    ELSE IF unit = <<"m", "m">> THEN FDiv(value, 1000)
    ELSE IF unit = <<"g">> THEN FDiv(value, 1000)
    ELSE IF unit = <<"m", "g">> THEN FDiv(value, 1000000)
    ELSE IF unit = <<"m", "s">> THEN FDiv(value, 1000)
    ELSE value

convert_to_base_unit(value, unit) ==
    IF ~Truthy(unit) THEN value
    ELSE With(Lower(unit), LAMBDA u :
             IF u = <<"k", "m">> THEN FMul(value, 1000)
             ELSE IF u = <<"c", "m">> THEN FDiv(value, 100)
             ELSE IF u = <<"m", "m">> THEN FDiv(value, 1000)
             ELSE IF u = <<"g">> THEN FDiv(value, 1000)
             ELSE IF u = <<"m", "g">> THEN FDiv(value, 1000000)
             ELSE IF u = <<"m", "s">> THEN FDiv(value, 1000)
             ELSE value)

\* the absolute tolerance of answers_match, the float literal 0.001
Tolerance == FDiv(FFromInt(1), 1000)

\* abs(x - y) < 0.001
Close(x, y) == FLess(FAbsDiff(x, y), Tolerance)

\* x in y, for two str
IsSubstring(x, y) ==
    \E i \in 0..(Len(y) - Len(x)) : SubSeq(y, i + 1, i + Len(x)) = x

\* answers_match, lines 158-159: the number in base units
Base(e) ==
    IF Truthy(e.unit) THEN convert_to_base_unit(e.num, e.unit) ELSE e.num

\* answers_match, lines 156-172: the comparison after unit conversion
UnitMatch(e1, e2) ==
    /\ Truthy(e1.unit) \/ Truthy(e2.unit)
    /\ \/ Close(Base(e1), Base(e2))
       \/ /\ Truthy(e1.unit) /\ ~Truthy(e2.unit)
          /\ Close(convert_to_base_unit(e1.num, e1.unit), e2.num)
       \/ /\ Truthy(e2.unit) /\ ~Truthy(e1.unit)
          /\ Close(e1.num, convert_to_base_unit(e2.num, e2.unit))

\* answers_match, lines 147-172: the comparison of the extracted numbers
ExtractedMatch(answer1, answer2) ==
    With(extract_number_and_unit(answer1), LAMBDA e1 :
    With(extract_number_and_unit(answer2), LAMBDA e2 :
        /\ e1.num # NoneNum
        /\ e2.num # NoneNum
        /\ Close(e1.num, e2.num) \/ UnitMatch(e1, e2)))

\* answers_match, lines 175-181: the comparison of the normalized strings
FallbackMatch(norm1, norm2) ==
    With(PyFloat(norm1), LAMBDA num1 :
    With(PyFloat(norm2), LAMBDA num2 :
        num1.ok /\ num2.ok /\ Close(num1.val, num2.val)))

\* containment tested in one direction only
StringMatchOneWay(norm1, norm2) == IsSubstring(norm1, norm2)

\* answers_match, lines 184-186
StringMatch(norm1, norm2) ==
    IsSubstring(norm1, norm2) \/ IsSubstring(norm2, norm1)

\* (a call of normalize_answer that raises OverflowError ends answers_match
\* with the same exception; the answers compared below hold no such number)
answers_match(answer1, answer2, answer_type) ==
    With(normalize_answer(answer1, answer_type), LAMBDA norm1 :
    With(normalize_answer(answer2, answer_type), LAMBDA norm2 :
        IF norm1 = norm2 THEN TRUE
        ELSE IF answer_type \in NumericTypes
        THEN ExtractedMatch(answer1, answer2) \/ FallbackMatch(norm1, norm2)
        ELSE IF answer_type = "string"
        THEN StringMatch(norm1, norm2)
        ELSE FALSE))

(***************************************************************************)
(* The aggregators of evaluator.py.  A dict is a function and its keys are *)
(* the DOMAIN of the function:                                             *)
(*   problems[id]          [correct_answer, answer_type, category]         *)
(*   results[id]           the winning_answer of the judgment, '' if the   *)
(*                         record holds none                               *)
(*   stage1_solutions[id]  the final_answer of each solver, '' if it holds *)
(*                         none, in the order of the keys of the dict:     *)
(*                         solver k is the k-th key                        *)
(*   refined_solutions[id] the refined final_answer of the solvers that    *)
(*                         have one, by solver                             *)
(* A count that a loop of the code adds up one item at a time is the       *)
(* number of items that pass the tests of the loop.                        *)
(***************************************************************************)

\* the argument results=None of calculate_consensus_rate and
\* calculate_majority_vote_baseline: no problem has the key 0
NoResults == [id \in {0} |-> None]

\* the ratio as a percentage
RatioPercent(correct, total) == FDiv(FFromInt(100 * correct), total)

\* correct / total, a double (the caller tests total > 0)
Ratio(correct, total) == FDiv(FFromInt(correct), total)

\* the judged answer compared as it is written
JudgeCorrectExact(problems, results, id) ==
    results[id] = problems[id].correct_answer

\* lines 295-297 (and 464-465): the judged answer of a problem is correct
JudgeCorrect(problems, results, id) ==
    answers_match(results[id], problems[id].correct_answer,
                  problems[id].answer_type)

\* calculate_system_metrics, lines 286-288: the results that are scored
Scored(problems, results) == DOMAIN results \cap DOMAIN problems

\* calculate_system_metrics, lines 301-311 and 318-321: one category
CategoryMetrics(problems, results, category) ==
    With({id \in Scored(problems, results) :
             problems[id].category = category}, LAMBDA ids :
    With(Cardinality({id \in ids : JudgeCorrect(problems, results, id)}),
         LAMBDA correct :
        [total    |-> Cardinality(ids),
         correct  |-> correct,
         accuracy |-> IF Cardinality(ids) > 0
                      THEN Ratio(correct, Cardinality(ids)) ELSE FZero]))

calculate_system_metrics(problems, results) ==
    With(Cardinality({id \in Scored(problems, results) :
                         JudgeCorrect(problems, results, id)}),
         LAMBDA correct_count :
        [total_problems        |-> Cardinality(DOMAIN problems),
         processed_problems    |-> Cardinality(DOMAIN results),
         correct_final_answers |-> correct_count,
         overall_accuracy      |->
             IF Cardinality(DOMAIN results) > 0
             THEN Ratio(correct_count, Cardinality(DOMAIN results))
             ELSE FZero,
         by_category           |->
             [category \in {problems[id].category :
                               id \in Scored(problems, results)} |->
                 CategoryMetrics(problems, results, category)]])

\* calculate_improvement_rate, lines 336-338: the problems that are counted
Refinable(problems, stage1_solutions, refined_solutions) ==
    {id \in DOMAIN stage1_solutions :
        id \in DOMAIN problems /\ id \in DOMAIN refined_solutions}

\* line 360: refined_answers.get(solver_id, original)
RefinedAnswer(stage1_solutions, refined_solutions, id, solver) ==
    IF solver \in DOMAIN refined_solutions[id]
    THEN refined_solutions[id][solver]
    ELSE stage1_solutions[id][solver]

\* lines 358-368: for each solver, whether its answer and its refined answer
\* are correct
Flips(problems, stage1_solutions, refined_solutions, id) ==
    {[original_correct |->
          answers_match(stage1_solutions[id][solver],
                        problems[id].correct_answer,
                        problems[id].answer_type),
      refined_correct |->
          answers_match(RefinedAnswer(stage1_solutions, refined_solutions,
                                      id, solver),
                        problems[id].correct_answer,
                        problems[id].answer_type)] :
        solver \in DOMAIN stage1_solutions[id]}

\* worsened tested before improved
BucketWorsenedFirst(any_improved, any_worsened) ==
    IF any_worsened THEN "worsened"
    ELSE IF any_improved THEN "improved"
    ELSE "unchanged"

\* lines 371-376: one bucket for a problem
Bucket(any_improved, any_worsened) ==
    IF any_improved THEN "improved"
    ELSE IF any_worsened THEN "worsened"
    ELSE "unchanged"

\* the bucket of a counted problem
BucketOf(problems, stage1_solutions, refined_solutions, id) ==
    With(Flips(problems, stage1_solutions, refined_solutions, id),
         LAMBDA flips :
        Bucket(\E f \in flips : ~f.original_correct /\ f.refined_correct,
               \E f \in flips : f.original_correct /\ ~f.refined_correct))

calculate_improvement_rate(problems, stage1_solutions, refined_solutions) ==
    With(Refinable(problems, stage1_solutions, refined_solutions),
         LAMBDA ids :
    With([id \in ids |-> BucketOf(problems, stage1_solutions,
                                  refined_solutions, id)],
         LAMBDA bucket :
    With(Cardinality({id \in ids : bucket[id] = "improved"}),
         LAMBDA improved :
        [total_with_refinement |-> Cardinality(ids),
         improved  |-> improved,
         worsened  |-> Cardinality({id \in ids : bucket[id] = "worsened"}),
         unchanged |-> Cardinality({id \in ids : bucket[id] = "unchanged"}),
         improvement_rate |-> IF Cardinality(ids) > 0
                              THEN Ratio(improved, Cardinality(ids))
                              ELSE FZero])))

\* lines 408-414 (and 455-461, 567-573): the normalized answers of a problem
Normalized(problems, stage1_solutions, id) ==
    [k \in DOMAIN stage1_solutions[id] |->
        normalize_answer(stage1_solutions[id][k], problems[id].answer_type)]

\* the answers that match no earlier answer of the list as floats
UniqueAnswersMatching(normalized) ==
    Cardinality({k \in DOMAIN normalized :
                    \A j \in 1..(k - 1) :
                        ~answers_match(normalized[j], normalized[k],
                                       "float")})

\* len(set(normalized))
UniqueAnswers(normalized) ==
    Cardinality({normalized[k] : k \in DOMAIN normalized})

\* calculate_consensus_rate, lines 400-406 (and 555-561): the problems that
\* are counted
Counted(problems, stage1_solutions, results) ==
    {id \in DOMAIN stage1_solutions :
        /\ id \in DOMAIN problems
        /\ results = NoResults \/ id \in DOMAIN results}

\* two distinct answers count as no consensus
ConsensusAllOrNothing(unique_answers) ==
    IF unique_answers = 1 THEN "full" ELSE "none"

\* lines 419-424: the class of a problem
Consensus(unique_answers) ==
    IF unique_answers = 1 THEN "full"
    ELSE IF unique_answers = 2 THEN "partial"
    ELSE "none"

calculate_consensus_rate(problems, stage1_solutions, results) ==
    With(Counted(problems, stage1_solutions, results), LAMBDA ids :
    With([id \in ids |->
             Consensus(UniqueAnswers(Normalized(problems, stage1_solutions,
                                                id)))],
         LAMBDA class :
    With(Cardinality({id \in ids : class[id] = "full"}), LAMBDA full :
        [total             |-> Cardinality(ids),
         full_consensus    |-> full,
         partial_consensus |-> Cardinality({id \in ids : class[id] = "partial"}),
         no_consensus      |-> Cardinality({id \in ids : class[id] = "none"}),
         consensus_rate    |-> IF Cardinality(ids) > 0
                               THEN Ratio(full, Cardinality(ids))
                               ELSE FZero])))

\* the number of times x is in the list
Count(list, x) == Cardinality({k \in DOMAIN list : list[k] = x})

\* an element with the highest count, the one that came last in the list if
\* several have it
MostCommonLast(list) ==
    list[CHOOSE i \in DOMAIN list :
            \A j \in DOMAIN list :
                \/ Count(list, list[j]) < Count(list, list[i])
                \/ /\ Count(list, list[j]) = Count(list, list[i])
                   /\ \A k \in DOMAIN list : list[k] = list[j] => k <= i]

\* Counter(list).most_common(1)[0][0]: an element with the highest count, the
\* one that came first in the list if several have it
MostCommon(list) ==
    list[CHOOSE i \in DOMAIN list :
            \A j \in DOMAIN list :
                \/ Count(list, list[j]) < Count(list, list[i])
                \/ /\ Count(list, list[j]) = Count(list, list[i])
                   /\ \A k \in DOMAIN list : list[k] = list[j] => i <= k]

\* lines 471-473 (and 577-582): the majority answer of a problem is correct
MajorityCorrect(problems, stage1_solutions, id) ==
    answers_match(MostCommon(Normalized(problems, stage1_solutions, id)),
                  problems[id].correct_answer, problems[id].answer_type)

\* a problem counts as soon as it has one answer
DisagreementsOrUnanimous(problems, results, stage1_solutions) ==
    {id \in DOMAIN results :
        /\ id \in DOMAIN problems
        /\ id \in DOMAIN stage1_solutions
        /\ UniqueAnswers(Normalized(problems, stage1_solutions, id)) >= 1}

\* calculate_judge_accuracy, lines 443-460: the problems with disagreement
Disagreements(problems, results, stage1_solutions) ==
    {id \in DOMAIN results :
        /\ id \in DOMAIN problems
        /\ id \in DOMAIN stage1_solutions
        /\ UniqueAnswers(Normalized(problems, stage1_solutions, id)) > 1}

calculate_judge_accuracy(problems, results, stage1_solutions) ==
    With(Disagreements(problems, results, stage1_solutions), LAMBDA ids :
    With(Cardinality({id \in ids : JudgeCorrect(problems, results, id)}),
         LAMBDA judge_correct :
    With(Cardinality({id \in ids :
                         MajorityCorrect(problems, stage1_solutions, id)}),
         LAMBDA majority_vote_correct :
        [total_disagreements    |-> Cardinality(ids),
         judge_correct          |-> judge_correct,
         judge_accuracy         |-> IF Cardinality(ids) > 0
                                    THEN Ratio(judge_correct, Cardinality(ids))
                                    ELSE FZero,
         majority_vote_correct  |-> majority_vote_correct,
         majority_vote_accuracy |->
             IF Cardinality(ids) > 0
             THEN Ratio(majority_vote_correct, Cardinality(ids))
             ELSE FZero])))

calculate_majority_vote_baseline(problems, stage1_solutions, results) ==
    With({id \in Counted(problems, stage1_solutions, results) :
             DOMAIN stage1_solutions[id] # {}}, LAMBDA ids :
    With(Cardinality({id \in ids :
                         MajorityCorrect(problems, stage1_solutions, id)}),
         LAMBDA correct :
        [answers  |-> [id \in ids |->
                          MostCommon(Normalized(problems, stage1_solutions,
                                                id))],
         correct  |-> correct,
         total    |-> Cardinality(ids),
         accuracy |-> IF ids # {} THEN Ratio(correct, Cardinality(ids))
                      ELSE FZero]))

(***************************************************************************)
(* The evaluator's functions are pure.  A caller holds two answers, an     *)
(* answer type and a unit, and applies the functions to them; each action  *)
(* below is one call, and records what the call returned.                  *)
(***************************************************************************)
VARIABLES answer1, answer2, answer_type, unit_arg,
          pc, norm, renorm, extracted, converted, matched, swapped,
          problems, results, stage1_solutions, refined_solutions, metrics,
          messages, dicts, response_format, attempt, sent, outcome,
          skip_stages, files, held, executed, run_results,
          self_assessments, assignments

dataset == <<problems, results, stage1_solutions, refined_solutions>>
\* call_llm: the caller's list of messages (references to dicts), the dicts,
\* the format asked for, the loop counter, the lists sent to the API and what
\* the call returned or raised
llm == <<messages, dicts, response_format, attempt, sent, outcome>>
\* run_full_pipeline: the stages to skip, the stages with a saved output, the
\* outputs held, the stage functions called and the record returned
pipeline == <<skip_stages, files, held, executed, run_results>>
\* assign_roles_algorithmically: its argument and its result
roles == <<self_assessments, assignments>>
agents == <<llm, pipeline, roles>>
inputs == <<answer1, answer2, answer_type, unit_arg, dataset, agents>>
vars == <<answer1, answer2, answer_type, unit_arg,
          pc, norm, renorm, extracted, converted, matched, swapped,
          problems, results, stage1_solutions, refined_solutions, metrics,
          messages, dicts, response_format, attempt, sent, outcome,
          skip_stages, files, held, executed, run_results,
          self_assessments, assignments>>

\* response_format={"type": "json_object"}, and response_format=None
JsonObject == [type |-> "json_object"]
NoFormat == [type |-> "None"]

\* call_llm has neither returned nor raised
Pending == [pending |-> TRUE]

\* call_llm has not been called
NoLlm ==
    /\ messages = <<>>
    /\ dicts = <<>>
    /\ response_format = NoFormat
    /\ attempt = 0
    /\ sent = <<>>
    /\ outcome = Pending

\* run_full_pipeline has not been called
NoPipeline ==
    /\ skip_stages = {}
    /\ files = {}
    /\ held = {}
    /\ executed = <<>>
    /\ run_results = None

\* assign_roles_algorithmically has not been called
NoRoles ==
    /\ self_assessments = <<>>
    /\ assignments = None

\* no function of the evaluator has returned anything
Unset ==
    /\ norm = None
    /\ renorm = None
    /\ extracted = [num |-> NoneNum, unit |-> None]
    /\ converted = NoneNum
    /\ matched = FALSE
    /\ swapped = FALSE
    /\ metrics = None

\* nothing has been called yet
Fresh ==
    /\ pc = "start"
    /\ Unset
    /\ NoLlm
    /\ NoPipeline
    /\ NoRoles

\* no problems, results or solutions have been loaded
NoData ==
    /\ problems = <<>>
    /\ results = <<>>
    /\ stage1_solutions = <<>>
    /\ refined_solutions = <<>>

\* normalize_answer(answer1, answer_type)
Normalize ==
    /\ pc = "start"
    /\ norm' = normalize_answer(answer1, answer_type)
    /\ pc' = "normalized"
    /\ UNCHANGED <<inputs, metrics, renorm, extracted, converted, matched, swapped>>

\* normalize_answer applied to its own result
Renormalize ==
    /\ pc = "normalized"
    /\ renorm' = normalize_answer(norm, answer_type)
    /\ pc' = "renormalized"
    /\ UNCHANGED <<inputs, metrics, norm, extracted, converted, matched, swapped>>

\* extract_number_and_unit(answer1)
Extract ==
    /\ pc = "start"
    /\ extracted' = extract_number_and_unit(answer1)
    /\ pc' = "extracted"
    /\ UNCHANGED <<inputs, metrics, norm, renorm, converted, matched, swapped>>

\* convert_to_base_unit(num, unit_arg) for the number just extracted
Convert ==
    /\ pc = "extracted"
    /\ extracted.num # NoneNum
    /\ converted' = convert_to_base_unit(extracted.num, unit_arg)
    /\ pc' = "converted"
    /\ UNCHANGED <<inputs, metrics, norm, renorm, extracted, matched, swapped>>

\* answers_match(answer1, answer2, answer_type)
Match ==
    /\ pc = "start"
    /\ matched' = answers_match(answer1, answer2, answer_type)
    /\ pc' = "matched"
    /\ UNCHANGED <<inputs, metrics, norm, renorm, extracted, converted, swapped>>

\* answers_match(answer2, answer1, answer_type)
MatchSwapped ==
    /\ pc = "matched"
    /\ swapped' = answers_match(answer2, answer1, answer_type)
    /\ pc' = "compared"
    /\ UNCHANGED <<inputs, metrics, norm, renorm, extracted, converted, matched>>

Next ==
    \/ Normalize
    \/ Renormalize
    \/ Extract
    \/ Convert
    \/ Match
    \/ MatchSwapped

\* what no aggregator changes
calls == <<answer1, answer2, answer_type, unit_arg,
           norm, renorm, extracted, converted, matched, swapped>>

\* calculate_system_metrics(problems, results), results a dict
SystemMetrics ==
    /\ pc = "start"
    /\ results # NoResults
    /\ metrics' = calculate_system_metrics(problems, results)
    /\ pc' = "system_metrics"
    /\ UNCHANGED <<calls, dataset, agents>>

\* calculate_improvement_rate(problems, stage1_solutions, refined_solutions)
ImprovementRate ==
    /\ pc = "start"
    /\ metrics' = calculate_improvement_rate(problems, stage1_solutions,
                                             refined_solutions)
    /\ pc' = "improvement_metrics"
    /\ UNCHANGED <<calls, dataset, agents>>

\* calculate_consensus_rate(problems, stage1_solutions, results), results a
\* dict or None
ConsensusRate ==
    /\ pc = "start"
    /\ metrics' = calculate_consensus_rate(problems, stage1_solutions,
                                           results)
    /\ pc' = "consensus_metrics"
    /\ UNCHANGED <<calls, dataset, agents>>

\* calculate_judge_accuracy(problems, results, stage1_solutions), results a
\* dict
JudgeAccuracy ==
    /\ pc = "start"
    /\ results # NoResults
    /\ metrics' = calculate_judge_accuracy(problems, results,
                                           stage1_solutions)
    /\ pc' = "judge_metrics"
    /\ UNCHANGED <<calls, dataset, agents>>

\* calculate_majority_vote_baseline(problems, stage1_solutions, results),
\* results a dict or None
MajorityVoteBaseline ==
    /\ pc = "start"
    /\ metrics' = calculate_majority_vote_baseline(problems, stage1_solutions,
                                                   results)
    /\ pc' = "majority_vote"
    /\ UNCHANGED <<calls, dataset, agents>>

NextMetrics ==
    \/ SystemMetrics
    \/ ImprovementRate
    \/ ConsensusRate
    \/ JudgeAccuracy
    \/ MajorityVoteBaseline

(***************************************************************************)
(* solver.call_llm (role_asigner.call_llm is its JSON branch).  A message  *)
(* is a dict; the caller's list holds references to dicts, so a list is a  *)
(* sequence of keys of dicts.  The content of a message is the sequence of *)
(* the texts it was built from.  One action is one pass through the loop.  *)
(***************************************************************************)
\* config.MAX_RETRIES
MAX_RETRIES == 3

\* the text of a prompt, and the text added on line 34
Prompt == "prompt"
JsonOnly == "IMPORTANT: Respond ONLY with valid JSON, no other text."

\* line 20: response_format and response_format.get("type") == "json_object"
WantsJson(format) == format # NoFormat /\ format.type = "json_object"

\* line 32, list.copy(): a new list of the same references
Copy(list) == list

\* what the API receives for a list of messages: the dicts as they are now
Contents(heap, list) == [i \in DOMAIN list |-> heap[list[i]]]

\* lines 33-34: the last dict of the list gets the JSON instruction added to
\* its content, if it is a user message
WithJsonOnly(heap, list) ==
    IF heap[list[Len(list)]].role = "user"
    THEN [heap EXCEPT ![list[Len(list)]].content = @ \o <<JsonOnly>>]
    ELSE heap

\* what client.chat.completions.create and the parsing of its response can
\* do: return JSON, return text that is no JSON, fail because the model does
\* not know response_format, fail otherwise
ApiOutcomes == {"json", "text", "response_format", "error"}

\* lines 28, 47: json.loads of the content returns or raises
Parses(api) == api = "json"

\* line 31: "response_format" in str(json_error).lower()
MentionsResponseFormat(api) == api = "response_format"

\* a request as the API saw it
Request(heap, list, format) ==
    [attempt |-> attempt, messages |-> Contents(heap, list),
     response_format |-> format]

\* one attempt more than the loop has
MayRetryOnceMore(n) == n < MAX_RETRIES

\* line 59: attempt < MAX_RETRIES - 1
MayRetry(n) == n < MAX_RETRIES - 1

\* lines 58-62: the except clause of the loop, for the exception e
Except(e) ==
    IF MayRetry(attempt)
    THEN /\ attempt' = attempt + 1
         /\ pc' = "llm_attempt"
         /\ outcome' = outcome
    ELSE /\ attempt' = attempt
         /\ pc' = "llm_raised"
         /\ outcome' = [raised |-> e]

\* lines 28, 47, 57: return
Return(value) ==
    /\ attempt' = attempt
    /\ pc' = "llm_returned"
    /\ outcome' = [returned |-> value]

\* lines 19-49: one pass of the loop when JSON is asked for.  The first
\* request asks for a JSON object; if it fails on response_format the
\* messages are copied, the instruction is added and a second request is
\* made without response_format.
AttemptJson ==
    /\ pc = "llm_attempt"
    /\ WantsJson(response_format)
    /\ \E first \in ApiOutcomes :
           IF Parses(first)
           THEN /\ sent' = Append(sent, Request(dicts, messages, JsonObject))
                /\ dicts' = dicts
                /\ Return([attempt |-> attempt, call |-> 1])
           ELSE IF ~MentionsResponseFormat(first)
           THEN /\ sent' = Append(sent, Request(dicts, messages, JsonObject))
                /\ dicts' = dicts
                /\ Except([attempt |-> attempt, call |-> 1, error |-> first])
           ELSE IF Copy(messages) = <<>>
           THEN /\ sent' = Append(sent, Request(dicts, messages, JsonObject))
                /\ dicts' = dicts
                /\ Except([attempt |-> attempt, call |-> 1,
                           error |-> "IndexError"])
           ELSE /\ dicts' = WithJsonOnly(dicts, Copy(messages))
                /\ sent' = sent \o
                       <<Request(dicts, messages, JsonObject),
                         Request(dicts', Copy(messages), NoFormat)>>
                /\ \E second \in ApiOutcomes :
                       IF Parses(second)
                       THEN Return([attempt |-> attempt, call |-> 2])
                       ELSE Except([attempt |-> attempt, call |-> 2,
                                    error |-> second])
    /\ UNCHANGED <<messages, response_format>>
    /\ UNCHANGED <<answer1, answer2, answer_type, unit_arg, dataset,
                   norm, renorm, extracted, converted, matched, swapped,
                   metrics, pipeline, roles>>

\* lines 50-57: one pass of the loop when no JSON is asked for
AttemptText ==
    /\ pc = "llm_attempt"
    /\ ~WantsJson(response_format)
    /\ sent' = Append(sent, Request(dicts, messages, NoFormat))
    /\ \E api \in {"text", "error"} :
           IF api = "text"
           THEN Return([attempt |-> attempt, call |-> 1])
           ELSE Except([attempt |-> attempt, call |-> 1, error |-> api])
    /\ UNCHANGED <<messages, dicts, response_format>>
    /\ UNCHANGED <<answer1, answer2, answer_type, unit_arg, dataset,
                   norm, renorm, extracted, converted, matched, swapped,
                   metrics, pipeline, roles>>

NextLlm ==
    \/ AttemptJson
    \/ AttemptText

\* the dicts of a list of messages with the given roles
NewDicts(rs) == [i \in DOMAIN rs |-> [role |-> rs[i], content |-> <<Prompt>>]]

\* the lists of messages of the callers: a system and a user message
\* (generate_solution, self_assess_role), a user message alone, a list that
\* ends with an assistant message, no message
MessageRoles ==
    { <<"system", "user">>, <<"user">>, <<"system", "user", "assistant">>,
      <<>> }
ResponseFormats == {NoFormat, JsonObject, [type |-> "text"]}

\* call_llm(model, messages, temperature, response_format) is entered
InitLlm ==
    /\ \E rs \in MessageRoles :
           /\ messages = [i \in DOMAIN rs |-> i]
           /\ dicts = NewDicts(rs)
    /\ response_format \in ResponseFormats
    /\ attempt = 0
    /\ sent = <<>>
    /\ outcome = Pending
    /\ pc = "llm_attempt"
    /\ answer1 = <<>>
    /\ answer2 = <<>>
    /\ answer_type = "string"
    /\ unit_arg = None
    /\ NoData
    /\ Unset
    /\ NoPipeline
    /\ NoRoles

SpecLlm == InitLlm /\ [][NextLlm]_vars

\* every API call returns or raises, so the loop goes on
SpecLlmFair == SpecLlm /\ WF_vars(NextLlm)

(***************************************************************************)
(* orchestrator.run_full_pipeline.  The results dict is a function from    *)
(* its keys; held is the set of stages whose output is bound to its local  *)
(* variable (role_assignments, solutions, reviews, refined_solutions);     *)
(* files is the set of stages whose saved output exists.  One action is    *)
(* one stage block: the call of the stage function or the load of its      *)
(* file, and what the except clauses do when it raises.                    *)
(***************************************************************************)
Stages == 0..4

\* the key of results that takes the output of a stage
OutputKey(k) ==
    CASE k = 0 -> "stage0_roles"
      [] k = 1 -> "stage1_solutions"
      [] k = 2 -> "stage2_reviews"
      [] k = 3 -> "stage3_refined"
      [] k = 4 -> "stage4_judgment"

\* where run_full_pipeline is when it is about to enter the block of a stage
StagePc(k) ==
    CASE k = 0 -> "stage0" [] k = 1 -> "stage1" [] k = 2 -> "stage2"
      [] k = 3 -> "stage3" [] k = 4 -> "stage4"

\* the outputs of earlier stages that the function of a stage is called
\* with: lines 98, 122, 146, 170-177
Needs(k) ==
    CASE k = 0 -> {}
      [] k = 1 -> {0}
      [] k = 2 -> {1}
      [] k = 3 -> {1, 2}
      [] k = 4 -> {0, 1, 2, 3}

\* {"stage": k, "error": str(e)}: the stage of an error entry, as a string
ErrorEntry(k) == [stage |-> ToString(k)]
FatalEntry == [stage |-> "fatal"]

\* lines 59-65: results as run_full_pipeline creates it
NewResults == [stages_completed |-> <<>>, errors |-> <<>>]

\* results[key] = value
Store(r, key, value) == (key :> value) @@ r

\* lines 71, 95, 119, 143, 167: k not in skip_stages
Runs(skip, k) == k \notin skip

\* the error of a stage is recorded and the pipeline goes on
StageRaisesGoesOn(k) ==
    /\ run_results' =
           Store(run_results, "errors",
                 run_results["errors"] \o <<ErrorEntry(k)>>)
    /\ pc' = StagePc(k + 1)
    /\ UNCHANGED <<held, files>>

\* the except clause of a stage block, lines 78-81: the error is recorded
\* and raised again; the outer except clause, lines 200-204, records the
\* fatal error and sets success
StageRaises(k) ==
    /\ run_results' =
           Store(Store(run_results, "errors",
                       run_results["errors"] \o <<ErrorEntry(k), FatalEntry>>),
                 "success", FALSE)
    /\ pc' = "pipeline_returned"
    /\ UNCHANGED <<held, files>>

\* lines 87-92: the load of a saved output fails, or the file is missing;
\* the outer except clause records the fatal error and sets success
LoadRaises ==
    /\ run_results' =
           Store(Store(run_results, "errors",
                       run_results["errors"] \o <<FatalEntry>>),
                 "success", FALSE)
    /\ pc' = "pipeline_returned"
    /\ UNCHANGED <<held, files>>

\* lines 70-164: the block of stage k, 0 to 3.  A stage that is not skipped
\* calls its function, which saves its output and returns it, or raises; a
\* skipped stage loads the saved output, if there is one and it can be read.
Stage(k) ==
    /\ pc = StagePc(k)
    /\ IF Runs(skip_stages, k)
       THEN /\ executed' = Append(executed, k)
            /\ \E returns \in BOOLEAN :
                   IF returns /\ Needs(k) \subseteq held
                   THEN /\ run_results' =
                               Store(Store(run_results, OutputKey(k), k),
                                     "stages_completed",
                                     Append(run_results["stages_completed"],
                                            k))
                        /\ held' = held \cup {k}
                        /\ files' = files \cup {k}
                        /\ pc' = StagePc(k + 1)
                   ELSE StageRaises(k)
       ELSE /\ executed' = executed
            /\ \E readable \in BOOLEAN :
                   IF k \in files /\ readable
                   THEN /\ held' = held \cup {k}
                        /\ pc' = StagePc(k + 1)
                        /\ UNCHANGED <<run_results, files>>
                   ELSE LoadRaises
    /\ UNCHANGED skip_stages
    /\ UNCHANGED <<answer1, answer2, answer_type, unit_arg, dataset,
                   norm, renorm, extracted, converted, matched, swapped,
                   metrics, llm, roles>>

\* the failure of make_judgment is raised again and recorded as fatal too
JudgmentRaisesFatal(r) ==
    Store(Store(r, "errors", r["errors"] \o <<ErrorEntry(4), FatalEntry>>),
          "success", FALSE)

\* lines 185-191: the except clause of stage 4 records the error and does
\* not raise; success is set from the errors
JudgmentRaises(r) ==
    Store(Store(r, "errors", r["errors"] \o <<ErrorEntry(4)>>),
          "success", FALSE)

\* the winners a judgment can name: line 163 of judge.py, "" by default
Winners == {"solver_1", "solver_2", "solver_3", ""}

\* lines 167-191: the block of stage 4 and the end of the try block.  A
\* failure of make_judgment is recorded and not raised again.
Stage4 ==
    /\ pc = StagePc(4)
    /\ IF Runs(skip_stages, 4)
       THEN /\ executed' = Append(executed, 4)
            /\ \E returns \in BOOLEAN, winner \in Winners :
                   IF returns /\ Needs(4) \subseteq held
                   THEN run_results' =
                            Store(Store(Store(Store(Store(
                                run_results, OutputKey(4), 4),
                                "stages_completed",
                                Append(run_results["stages_completed"], 4)),
                                "winning_answer", "answer"),
                                "winner", winner),
                                "success", run_results["errors"] = <<>>)
                   ELSE run_results' = JudgmentRaises(run_results)
       ELSE /\ executed' = executed
            /\ run_results' =
                   Store(run_results, "success", run_results["errors"] = <<>>)
    /\ pc' = "pipeline_returned"
    /\ UNCHANGED <<skip_stages, files, held>>
    /\ UNCHANGED <<answer1, answer2, answer_type, unit_arg, dataset,
                   norm, renorm, extracted, converted, matched, swapped,
                   metrics, llm, roles>>

NextPipeline ==
    \/ \E k \in 0..3 : Stage(k)
    \/ Stage4

\* run_full_pipeline(problem, skip_stages) is entered, with any stages to
\* skip and any saved outputs of earlier runs
InitPipeline ==
    /\ skip_stages \in SUBSET Stages
    /\ files \in SUBSET (0..3)
    /\ held = {}
    /\ executed = <<>>
    /\ run_results = NewResults
    /\ pc = StagePc(0)
    /\ answer1 = <<>>
    /\ answer2 = <<>>
    /\ answer_type = "string"
    /\ unit_arg = None
    /\ NoData
    /\ Unset
    /\ NoLlm
    /\ NoRoles

SpecPipeline == InitPipeline /\ [][NextPipeline]_vars

(***************************************************************************)
(* role_asigner.assign_roles_algorithmically.  An assessment is a dict     *)
(* with confidence_by_role and role_preferences; the assignments refer to  *)
(* assessments of the list, here by their position (from 1).               *)
(***************************************************************************)
\* lines 99, 101: the boost of the preferred role
Boost == FloatOfNumeral(<<"0", ".", "1">>)

\* lines 94-95: confidence_by_role.get(role, 0.0)
Confidence(assessment, role) ==
    IF role \in DOMAIN assessment.confidence_by_role
    THEN assessment.confidence_by_role[role]
    ELSE FZero

\* lines 94-101: the score of an assessment for a role
Score(assessment, role) ==
    IF assessment.role_preferences[1] = role
    THEN FAdd(Confidence(assessment, role), Boost)
    ELSE Confidence(assessment, role)

\* lines 107-108, list.sort(key=..., reverse=True): the positions by falling
\* score, equal scores in the order of the list
SortedByScore(scores) ==
    [r \in DOMAIN scores |->
        CHOOSE i \in DOMAIN scores :
            r = 1 + Cardinality({j \in DOMAIN scores :
                                    \/ FLess(scores[i], scores[j])
                                    \/ scores[j] = scores[i] /\ j < i})]

\* the best judge, solver or not
JudgeIndexNoSwap(judge_sorted, solver_indices) == judge_sorted[1]

\* lines 112-119: the best judge, or if that one is a solver the best judge
\* that is no solver, if there is one
JudgeIndex(judge_sorted, solver_indices) ==
    IF /\ judge_sorted[1] \in {solver_indices[k] : k \in 1..3}
       /\ \E r \in 2..Len(judge_sorted) :
              judge_sorted[r] \notin {solver_indices[k] : k \in 1..3}
    THEN judge_sorted[CHOOSE r \in 2..Len(judge_sorted) :
             /\ judge_sorted[r] \notin {solver_indices[k] : k \in 1..3}
             /\ \A q \in 2..(r - 1) :
                    judge_sorted[q] \in {solver_indices[k] : k \in 1..3}]
    ELSE judge_sorted[1]

\* lines 86-128
assign_roles_algorithmically(assessments) ==
    With(SortedByScore([i \in DOMAIN assessments |->
                           Score(assessments[i], "Solver")]),
         LAMBDA solver_sorted :
    With(SortedByScore([i \in DOMAIN assessments |->
                           Score(assessments[i], "Judge")]),
         LAMBDA judge_sorted :
    With(SubSeq(solver_sorted, 1, 3), LAMBDA solver_indices :
        [solver_1 |-> solver_indices[1],
         solver_2 |-> solver_indices[2],
         solver_3 |-> solver_indices[3],
         judge    |-> JudgeIndex(judge_sorted, solver_indices)])))

\* assign_roles_algorithmically(self_assessments)
AssignRoles ==
    /\ pc = "roles"
    /\ assignments' = assign_roles_algorithmically(self_assessments)
    /\ pc' = "roles_assigned"
    /\ UNCHANGED self_assessments
    /\ UNCHANGED <<answer1, answer2, answer_type, unit_arg, dataset,
                   norm, renorm, extracted, converted, matched, swapped,
                   metrics, llm, pipeline>>

NextRoles == AssignRoles

\* the self-assessments of the models: confidences of 0.7, 0.8 and 0.9, the
\* preferred role first, one of them without a confidence as judge
MaxAssessments == 5
Conf(tenths) == FloatOfNumeral(<<"0", ".", DigitChars[tenths + 1]>>)
AssessmentPool ==
    { [confidence_by_role |-> [Solver |-> Conf(8), Judge |-> Conf(7)],
       role_preferences |-> <<"Solver", "Judge">>],
      [confidence_by_role |-> [Solver |-> Conf(9), Judge |-> Conf(9)],
       role_preferences |-> <<"Judge", "Solver">>],
      [confidence_by_role |-> [Solver |-> Conf(9), Judge |-> Conf(8)],
       role_preferences |-> <<"Solver", "Judge">>],
      [confidence_by_role |-> [Solver |-> Conf(7)],
       role_preferences |-> <<"Solver", "Judge">>] }

\* assign_roles_algorithmically is entered with four assessments (one for
\* each model of config.MODELS) or more
InitRoles ==
    /\ self_assessments \in
           UNION {[1..n -> AssessmentPool] : n \in 4..MaxAssessments}
    /\ assignments = None
    /\ pc = "roles"
    /\ answer1 = <<>>
    /\ answer2 = <<>>
    /\ answer_type = "string"
    /\ unit_arg = None
    /\ NoData
    /\ Unset
    /\ NoLlm
    /\ NoPipeline

SpecRoles == InitRoles /\ [][NextRoles]_vars

(***************************************************************************)
(* The answers the functions are applied to.                               *)
(***************************************************************************)
UpperChar(c) ==
    CASE c = "a" -> "A" [] c = "b" -> "B" [] c = "c" -> "C" [] c = "d" -> "D"
      [] c = "e" -> "E" [] c = "f" -> "F" [] c = "g" -> "G" [] c = "h" -> "H"
      [] c = "i" -> "I" [] c = "j" -> "J" [] c = "k" -> "K" [] c = "l" -> "L"
      [] c = "m" -> "M" [] c = "n" -> "N" [] c = "o" -> "O" [] c = "p" -> "P"
      [] c = "q" -> "Q" [] c = "r" -> "R" [] c = "s" -> "S" [] c = "t" -> "T"
      [] c = "u" -> "U" [] c = "v" -> "V" [] c = "w" -> "W" [] c = "x" -> "X"
      [] c = "y" -> "Y" [] c = "z" -> "Z" [] OTHER -> c

Upper(s) == [i \in 1..Len(s) |-> UpperChar(s[i])]

RECURSIVE IntDigits(_)
IntDigits(n) ==
    IF n < 10 THEN <<DigitChars[n + 1]>>
    ELSE Append(IntDigits(n \div 10), DigitChars[(n % 10) + 1])

\* digits with zeros in front, to more than k digits
PadZeros(d, k) ==
    IF Len(d) <= k THEN [i \in 1..(k + 1 - Len(d)) |-> "0"] \o d ELSE d

\* the decimal numeral of m / 10^k with exactly k fractional digits
Decimal(m, k) ==
    With(PadZeros(IntDigits(m), k), LAMBDA padded :
        IF k = 0 THEN padded
        ELSE SubSeq(padded, 1, Len(padded) - k) \o <<".">>
                 \o SubSeq(padded, Len(padded) - k + 1, Len(padded)))

Spaces(n) == [i \in 1..n |-> Space]

\* the unit vocabulary, as the specification writes it
LengthUnits == { <<"m", "m">>, <<"c", "m">>, <<"m">>, <<"k", "m">> }
MassUnits == { <<"m", "g">>, <<"g">>, <<"k", "g">> }
TimeUnits == { <<"m", "s">>, <<"s">> }
CompositeUnits ==
    { <<"r", "a", "d", "/", "s">>, <<"r", "a", "d", "/", "s", "^", "2">>,
      <<"m", "/", "s">>, <<"m", "/", "s", "^", "2">>,
      <<"N">>, <<"J">>, <<"W">>, <<"H", "z">>, <<"°">>,
      <<"d", "e", "g", "r", "e", "e">>, <<"d", "e", "g", "r", "e", "e", "s">> }
UnitTokens == LengthUnits \cup MassUnits \cup TimeUnits \cup CompositeUnits

\* a token in the letter cases an answer may use
Cases(u) == {u, Lower(u), Upper(u)}

\* unsigned decimals, for the tolerance of answers_match
MaxMantissa == 9
MaxFrac == 4
Decimals == {Decimal(m, k) : m \in 0..MaxMantissa, k \in 0..MaxFrac}

\* decimals with and without a leading minus sign
MaxSigned == 5
MaxSignedFrac == 1
Signs == {<<>>, <<"-">>}
SignedDecimals ==
    {sign \o Decimal(m, k) :
        sign \in Signs, m \in 0..MaxSigned, k \in 0..MaxSignedFrac}

\* lengths: a power of ten, written with or without a fraction, and a unit
MaxZeros == 3
MaxLengthFrac == 1
Lengths ==
    {Decimal(Pow10(j), k) \o <<Space>> \o u :
        j \in 0..MaxZeros, k \in 0..MaxLengthFrac, u \in LengthUnits}

\* a number followed by every token of the vocabulary, or by nothing
MaxMeasure == 2
MaxMeasureFrac == 1
MaxSpaces == 2
Measures ==
    {Decimal(m, k) \o Spaces(n) \o v :
        m \in 1..MaxMeasure, k \in 0..MaxMeasureFrac, n \in 0..MaxSpaces,
        v \in UNION {Cases(u) : u \in UnitTokens} \cup {<<>>}}

\* texts: up to MaxWords words
MaxWords == 2
Words == { <<"T", "h", "e">>, <<"t", "h", "e">>, <<"f", "i", "s", "h">>,
           <<"3">> }
RECURSIVE Phrases(_)
Phrases(n) ==
    IF n = 0 THEN {<<>>}
    ELSE With(Phrases(n - 1), LAMBDA shorter :
             shorter \cup {p \o (IF p = <<>> THEN <<>> ELSE <<Space>>) \o w :
                              p \in shorter, w \in Words})
TheTeacher == <<"T", "h", "e", " ", "t", "e", "a", "c", "h", "e", "r">>
TheTeacherHasTheFish ==
    <<"t", "h", "e", " ", "t", "e", "a", "c", "h", "e", "r", " ",
      "h", "a", "s", " ", "t", "h", "e", " ", "f", "i", "s", "h">>
TheTeacherSpaced ==
    <<" ", "T", "H", "E", " ", " ", "t", "e", "a", "c", "h", "e", "r", " ">>
Texts ==
    Phrases(MaxWords) \cup {TheTeacher, TheTeacherHasTheFish, TheTeacherSpaced}

\* answers of every kind: empty, malformed, money, measures, words
MaxMixed == 2
MaxMixedFrac == 1
Malformed == <<"1", ".", "2", ".", "3">>
Dollar == <<"$">>
MixedTails ==
    { <<>>, <<" ", "k", "m">>, <<" ", "m">>,
      <<" ", "d", "o", "l", "l", "a", "r", "s">>, <<" ", "w", "a", "y", "s">> }
Mixed ==
    {<<>>, Malformed} \cup Words
        \cup {Decimal(m, k) \o t :
                 m \in 1..MaxMixed, k \in 0..MaxMixedFrac, t \in MixedTails}
        \cup {Dollar \o Decimal(m, k) :
                 m \in 1..MaxMixed, k \in 0..MaxMixedFrac}

\* numeric answers: a number with an optional currency marker in front and
\* an optional unit or word behind
MaxNormal == 3
MaxNormalFrac == 4
Markers == { <<>>, Dollar, <<"U", "S", "D", " ">> }
TrailingWords ==
    { <<"d", "o", "l", "l", "a", "r", "s">>, <<"u", "n", "i", "t", "s">>,
      <<"w", "a", "y", "s">> }
Marked ==
    {p \o Decimal(m, k) \o t :
        p \in Markers, m \in 0..MaxNormal, k \in 0..MaxNormalFrac,
        t \in {<<>>} \cup {<<Space>> \o u : u \in UnitTokens \cup TrailingWords}}

\* the values and the units convert_to_base_unit is called with
MaxValue == 3
MaxValueFrac == 1
Values == {Decimal(m, k) : m \in 1..MaxValue, k \in 0..MaxValueFrac}
UnknownUnits == { <<"w", "a", "y", "s">>, <<"k", "m", "s">> }
UnitArgs ==
    {None, <<>>} \cup UnknownUnits \cup UNION {Cases(u) : u \in UnitTokens}

(***************************************************************************)
(* Specifications: the same calls, over different families of answers.     *)
(***************************************************************************)
\* pairs of unsigned decimals under the numeric types
InitTolerance ==
    /\ answer1 \in Decimals
    /\ answer2 \in Decimals
    /\ answer_type \in NumericTypes
    /\ unit_arg = None
    /\ NoData
    /\ Fresh

SpecTolerance == InitTolerance /\ [][Next]_vars

\* pairs of signed decimals under the numeric types
InitSigned ==
    /\ answer1 \in SignedDecimals
    /\ answer2 \in SignedDecimals
    /\ answer_type \in NumericTypes
    /\ unit_arg = None
    /\ NoData
    /\ Fresh

SpecSigned == InitSigned /\ [][Next]_vars

\* pairs of lengths under the numeric types
InitLength ==
    /\ answer1 \in Lengths
    /\ answer2 \in Lengths
    /\ answer_type \in NumericTypes
    /\ unit_arg = None
    /\ NoData
    /\ Fresh

SpecLength == InitLength /\ [][Next]_vars

\* pairs of texts under the string type
InitText ==
    /\ answer1 \in Texts
    /\ answer2 \in Texts
    /\ answer_type = "string"
    /\ unit_arg = None
    /\ NoData
    /\ Fresh

SpecText == InitText /\ [][Next]_vars

\* pairs of answers of every kind under every type
InitMixed ==
    /\ answer1 \in Mixed
    /\ answer2 \in Mixed
    /\ answer_type \in AnswerTypes
    /\ unit_arg = None
    /\ NoData
    /\ Fresh

SpecMixed == InitMixed /\ [][Next]_vars

\* one numeric answer under the numeric types
InitNormalize ==
    /\ answer1 \in Marked
    /\ answer2 = answer1
    /\ answer_type \in NumericTypes
    /\ unit_arg = None
    /\ NoData
    /\ Fresh

SpecNormalize == InitNormalize /\ [][Next]_vars

\* one number followed by a unit token
InitExtract ==
    /\ answer1 \in Measures
    /\ answer2 = answer1
    /\ answer_type = "float"
    /\ unit_arg = None
    /\ NoData
    /\ Fresh

SpecExtract == InitExtract /\ [][Next]_vars

\* one value and the unit it is converted from
InitConvert ==
    /\ answer1 \in Values
    /\ answer2 = answer1
    /\ answer_type = "float"
    /\ unit_arg \in UnitArgs
    /\ NoData
    /\ Fresh

SpecConvert == InitConvert /\ [][Next]_vars

\* answers that hold no number float() accepts, answers whose number is too
\* large for a double, and the answers of every kind
Dotted == { <<".">>, <<".", ".">>, <<"1", ".", ".", "2">>, Malformed }
About == <<"a", "b", "o", "u", "t", " ">>
Unparseable ==
    {pre \o d \o post :
        pre \in {<<>>, About}, d \in Dotted,
        post \in {<<>>, <<" ", "k", "m">>, <<" ", "w", "a", "y", "s">>}}
      \cup { <<" ", ".", " ">>, <<"$", ".">> }
Nines(n) == [i \in 1..n |-> "9"]
Overlong ==
    {Nines(MaxDecimalDigits + 1) \o t :
        t \in {<<>>, <<" ", "k", "m">>, <<".", "5">>}}
Awkward == Unparseable \cup Overlong \cup Mixed

InitAwkward ==
    /\ answer1 \in Awkward
    /\ answer2 = answer1
    /\ answer_type \in AnswerTypes
    /\ unit_arg = None
    /\ NoData
    /\ Fresh

\* the two functions that parse an answer
NextParse ==
    \/ Normalize
    \/ Extract

SpecAwkward == InitAwkward /\ [][NextParse]_vars

\* texts without a number, behind currency markers and before unit words,
\* some of them repeated
MarkerPrefixes ==
    { <<>>, <<"$">>, <<"$", "$">>, <<"u", "s", "d", " ">>,
      <<"U", "S", "D", " ", "U", "S", "D", " ">> }
MarkerStems == { <<"x">>, <<"a", "b", "c">>, <<"t", "h", "e", " ", "F", "i", "s", "h">> }
MarkerSuffixes ==
    { <<>>, <<" ", "u", "n", "i", "t", "s">>,
      <<" ", "u", "n", "i", "t", "s", " ", "u", "n", "i", "t", "s">>,
      <<" ", "d", "o", "l", "l", "a", "r", "s">>,
      <<" ", "d", "o", "l", "l", "a", "r", "s", " ", "U", "S", "D">> }
MarkedTexts ==
    {p \o w \o x : p \in MarkerPrefixes, w \in MarkerStems,
                    x \in MarkerSuffixes}

\* one marked text under every type
InitMarked ==
    /\ answer1 \in MarkedTexts
    /\ answer2 = <<>>
    /\ answer_type \in AnswerTypes
    /\ unit_arg = None
    /\ NoData
    /\ Fresh

\* normalize_answer, and normalize_answer of what it returned
NextRenormalize ==
    \/ Normalize
    \/ Renormalize

SpecMarked == InitMarked /\ [][NextRenormalize]_vars

\* a number followed by a composite or physical unit, against a number:
\* values written with three and with PassScale fractional digits, some of
\* them a little more than 0.001 apart
PassScale == 7
PassValues == {Decimal(m, k) : m \in {0, 1, 2, 36, 10037}, k \in {3, PassScale}}
PassAnswers ==
    {v \o <<Space>> \o u : v \in PassValues, u \in CompositeUnits}

InitPass ==
    /\ answer1 \in PassAnswers
    /\ answer2 \in PassValues
    /\ answer_type \in NumericTypes
    /\ unit_arg = None
    /\ NoData
    /\ Fresh

SpecPass == InitPass /\ [][Next]_vars

(***************************************************************************)
(* The data the aggregators are applied to: up to MaxProblems problems,    *)
(* each with up to MaxSolvers + 1 first-stage answers.                     *)
(***************************************************************************)
MaxProblems == 2
MaxSolvers == 3
ProblemIds == 1..MaxProblems

\* the functions from a subset of the keys to the values: the dicts with
\* some of the keys
Dicts(keys, values) == UNION {[ks -> values] : ks \in SUBSET keys}

ThirtyFour == <<"3", "4">>
ThirtyFive == <<"3", "5">>
ThirtySix == <<"3", "6">>
ThirtyFourWays == <<"3", "4", " ", "w", "a", "y", "s">>

\* every problem asks for 34
ProblemPool ==
    { [correct_answer |-> ThirtyFour, answer_type |-> "integer",
       category |-> "math"],
      [correct_answer |-> ThirtyFour, answer_type |-> "string",
       category |-> "physics"] }
MathProblem ==
    [correct_answer |-> ThirtyFour, answer_type |-> "integer",
     category |-> "math"]

\* the answers of a judge
WinningAnswers == {ThirtyFour, ThirtyFourWays, ThirtyFive, <<>>}

\* n first-stage answers with d different values (34, 35, 36 in turn), the
\* second and the fourth written with a fraction of zero
SolverAnswers == <<ThirtyFour, ThirtyFive, ThirtySix>>
SolverList(n, d) ==
    [k \in 1..n |-> SolverAnswers[((k - 1) % d) + 1]
                        \o (IF k % 2 = 0 THEN <<".", "0">> ELSE <<>>)]
SolverLists ==
    {SolverList(n, d) : n \in 0..(MaxSolvers + 1), d \in 1..Len(SolverAnswers)}

\* the refined answers of some of the first two solvers
Refinements == Dicts(1..2, {ThirtyFour, ThirtyFive})

\* no function of the evaluator is called on its own
NoCall ==
    /\ answer1 = <<>>
    /\ answer2 = <<>>
    /\ answer_type = "string"
    /\ unit_arg = None
    /\ Fresh

\* judged problems, some of the results without a problem
InitSystem ==
    /\ problems \in Dicts(ProblemIds, ProblemPool)
    /\ results \in Dicts(ProblemIds, WinningAnswers)
    /\ stage1_solutions = <<>>
    /\ refined_solutions = <<>>
    /\ NoCall

SpecSystem == InitSystem /\ [][NextMetrics]_vars

\* first-stage answers: of zero to MaxSolvers + 1 solvers for the first
\* problem, of MaxSolvers solvers for the others
InitConsensus ==
    /\ problems \in Dicts(ProblemIds, {MathProblem})
    /\ results \in Dicts(ProblemIds, {ThirtyFour}) \cup {NoResults}
    /\ stage1_solutions \in
           {s \in Dicts(ProblemIds, SolverLists) :
               \A id \in DOMAIN s : id = 1 \/ Len(s[id]) = MaxSolvers}
    /\ refined_solutions = <<>>
    /\ NoCall

SpecConsensus == InitConsensus /\ [][NextMetrics]_vars

\* two solvers, one right and one wrong, and their refined answers: of any
\* of the solvers for the first problem, of none or both for the others
InitImprovement ==
    /\ problems \in Dicts(ProblemIds, {MathProblem})
    /\ results = <<>>
    /\ stage1_solutions \in Dicts(ProblemIds, {<<ThirtyFour, ThirtyFive>>})
    /\ refined_solutions \in
           {r \in Dicts(ProblemIds, Refinements) :
               \A id \in DOMAIN r : id = 1 \/ DOMAIN r[id] \in {{}, 1..2}}
    /\ NoCall

SpecImprovement == InitImprovement /\ [][NextMetrics]_vars

\* all of the data above
InitDataset == InitSystem \/ InitConsensus \/ InitImprovement

SpecDataset == InitDataset /\ [][NextMetrics]_vars

\* a problem with a decimal answer, and first-stage answers that are within
\* the tolerance of each other: the same string three times, the same
\* number written in three ways, and three different numbers
NearProblem ==
    [correct_answer |-> <<"1", ".", "0">>, answer_type |-> "float",
     category |-> "physics"]
NearLists ==
    { << <<"1", ".", "0">>, <<"1", ".", "0">>, <<"1", ".", "0">> >>,
      << <<"1", ".", "0">>, <<"1", ".", "0", "0">>, <<"1">> >>,
      << <<"1", ".", "0", "0", "0", "4">>, <<"1", ".", "0">>,
         <<"1", ".", "0", "0", "0", "2">> >>,
      << <<"1", ".", "0", "0", "0", "4">>, <<"1", ".", "0", "0", "0", "4">>,
         <<"1", ".", "0">> >> }

\* judged problems with a decimal answer; the first problem has any of the
\* lists of near answers, the others the first of them
InitNear ==
    /\ problems \in Dicts(ProblemIds, {NearProblem})
    /\ results \in Dicts(ProblemIds, {<<"1", ".", "0">>})
    /\ stage1_solutions \in
           {s \in Dicts(ProblemIds, NearLists) :
               \A id \in DOMAIN s :
                   id = 1 \/ s[id][3] = s[id][1]}
    /\ refined_solutions = <<>>
    /\ NoCall

SpecNear == InitNear /\ [][NextMetrics]_vars

\* problems with a length as answer, and three solvers that all give the same
\* answer, with or without a unit
UnitProblems ==
    { [correct_answer |-> <<"1", " ", "m">>, answer_type |-> "float",
       category |-> "physics"],
      [correct_answer |-> <<"1", "0", "0">>, answer_type |-> "float",
       category |-> "physics"] }
UnitAnswers ==
    { <<"1", "0", "0", " ", "c", "m">>, <<"1", " ", "m">>,
      <<"1", "0", "0">>, <<"1">> }
Unanimous(answer) == <<answer, answer, answer>>

\* every problem judged; the first problem has any of the answers, the others
\* the answer in metres
InitUnits ==
    /\ problems \in Dicts(ProblemIds, UnitProblems)
    /\ results = [id \in ProblemIds |-> <<"1", " ", "m">>]
    /\ stage1_solutions \in
           {s \in Dicts(ProblemIds, {Unanimous(a) : a \in UnitAnswers}) :
               \A id \in DOMAIN s :
                   id = 1 \/ s[id] = Unanimous(<<"1", " ", "m">>)}
    /\ refined_solutions = <<>>
    /\ NoCall

SpecUnits == InitUnits /\ [][NextMetrics]_vars

(***************************************************************************)
(* Exact reading of the answers, for the properties: the value an answer   *)
(* writes, as an integer count of 10^-ExactScale, without any rounding.    *)
(***************************************************************************)
ExactScale == MaxFrac

\* the digits of a numeral and the number of digits after its decimal point
NumeralParts(s) ==
    LET dots == {i \in 1..Len(s) : s[i] = "."}
        dot  == IF dots = {} THEN Len(s) + 1 ELSE CHOOSE i \in dots : TRUE
    IN  [digits |-> SubSeq(s, 1, dot - 1) \o From(s, dot + 1),
         frac   |-> Len(s) - Min(dot, Len(s))]

RECURSIVE DigitsToInt(_)
DigitsToInt(digits) ==
    IF digits = <<>> THEN 0
    ELSE 10 * DigitsToInt(SubSeq(digits, 1, Len(digits) - 1))
         + DigitVal(digits[Len(digits)])

\* an unsigned numeral with at most ExactScale fractional digits
ExactValue(s) ==
    LET p == NumeralParts(s)
    IN  DigitsToInt(p.digits) * Pow10(ExactScale - p.frac)

Abs(n) == IF n < 0 THEN 0 - n ELSE n

\* 0.001
ExactTolerance == Pow10(ExactScale - 3)

ExactGap(a, b) == Abs(ExactValue(a) - ExactValue(b))

(***************************************************************************)
(* Claims                                                                  *)
(***************************************************************************)
\* C1: answers_match is symmetric: for every pair of answers and every
\* answer type, answers_match(a, b, t) = answers_match(b, a, t).
C1_Symmetric == pc = "compared" => matched = swapped

\* two answers whose normalized forms differ have matched in both orders
\* under a numeric type
C1_Witness ==
    /\ pc = "compared"
    /\ answer_type \in NumericTypes
    /\ matched
    /\ swapped
    /\ normalize_answer(answer1, answer_type)
           # normalize_answer(answer2, answer_type)

\* C2: normalize_answer is idempotent on numeric answers: normalizing the
\* normalized form of a number (with an optional currency marker, unit or
\* trailing word) under a numeric type gives the normalized form again.
C2_Idempotent == pc = "renormalized" => renorm = norm

\* an answer with a currency marker and a converted unit has been normalized
\* twice
C2_Witness ==
    /\ pc = "renormalized"
    /\ answer1[1] = "$"
    /\ NumberUnitSearch(answer1, UnitAlternatives).hasUnit
    /\ norm # NumberUnitSearch(answer1, UnitAlternatives).num
    /\ renorm = norm

\* C3: two unsigned decimals match under a numeric type exactly
\* when they differ by less than 0.001; a difference of 0.001 or more is
\* rejected by every step.
C3_ToleranceBoundaryClaimed ==
    pc = "matched" =>
        (matched <=> ExactGap(answer1, answer2) < ExactTolerance)

\* x occurs in y as a block of consecutive characters
Contains(x, y) ==
    \E before, after \in 0..Len(y) :
        /\ before + Len(x) + after = Len(y)
        /\ \A k \in 1..Len(x) : y[before + k] = x[k]

\* C5: under the string type two answers match exactly when their normalized
\* forms are equal or one contains the other, and letter case plays no part:
\* answers that differ only in case match.
C5_StringContainment ==
    pc = "matched" /\ answer_type = "string" =>
        LET n1 == normalize_answer(answer1, "string")
            n2 == normalize_answer(answer2, "string")
        IN  /\ matched <=> (n1 = n2 \/ Contains(n1, n2) \/ Contains(n2, n1))
            /\ Lower(answer1) = Lower(answer2) => matched

\* "The teacher" has matched "the teacher has the fish"
C5_Witness ==
    /\ pc = "matched"
    /\ answer_type = "string"
    /\ answer1 = TheTeacher
    /\ answer2 = TheTeacherHasTheFish
    /\ matched

\* C6: the empty string matches no answer whose normalized form is not
\* empty, in either order and under every answer type.
C6_EmptyNeverMatches ==
    pc = "compared" =>
        /\ answer1 = <<>> /\ normalize_answer(answer2, answer_type) # <<>>
               => ~matched /\ ~swapped
        /\ answer2 = <<>> /\ normalize_answer(answer1, answer_type) # <<>>
               => ~matched /\ ~swapped

(***************************************************************************)
(* Exact reading of a length: the number before the space, the unit after  *)
(* it, and the length as a count of 10^-MaxLengthFrac millimetres, an      *)
(* integer of any size (bits, most significant first, no leading zero).    *)
(***************************************************************************)
SpaceAt(s) == CHOOSE i \in 1..Len(s) : s[i] = Space
NumberOf(s) == SubSeq(s, 1, SpaceAt(s) - 1)
UnitOf(s) == From(s, SpaceAt(s) + 1)

\* the power of ten of a millimetre that the unit is
MillimetrePower(u) ==
    CASE u = <<"m", "m">> -> 0
      [] u = <<"c", "m">> -> 1
      [] u = <<"m">> -> 3
      [] u = <<"k", "m">> -> 6

ExactLength(s) ==
    LET p == NumeralParts(NumberOf(s))
    IN  StripLeft(MulBits(DecimalToBits(p.digits),
                          Pow10(MillimetrePower(UnitOf(s)) + MaxLengthFrac - p.frac)))

SameLength(a, b) == ExactLength(a) = ExactLength(b)

\* the two lengths differ by less than 0.001 m, that is one millimetre
LengthsWithinTolerance(a, b) ==
    LET n  == RoundUp(Max(Len(ExactLength(a)), Len(ExactLength(b))) + 4, 16)
        x  == PadLeft(ExactLength(a), n)
        y  == PadLeft(ExactLength(b), n)
        d  == IF BitsLess(x, y) THEN SubBits(y, x) ELSE SubBits(x, y)
    IN  BitsLess(d, PadLeft(IntToBits(Pow10(MaxLengthFrac)), n))

C8_DifferentUnitsNeedCloseBase ==
    pc = "matched" /\ UnitOf(answer1) # UnitOf(answer2) /\ matched
        => LengthsWithinTolerance(answer1, answer2)

(***************************************************************************)
(* Exact reading of a signed decimal, as a count of 10^-SignedScale.       *)
(***************************************************************************)
SignedScale == MaxSignedFrac + 3

IsNegative(s) == s # <<>> /\ s[1] = "-"
Magnitude(s) == IF IsNegative(s) THEN Tail(s) ELSE s

SignedValue(s) ==
    LET p == NumeralParts(Magnitude(s))
        v == DigitsToInt(p.digits) * Pow10(SignedScale - p.frac)
    IN  IF IsNegative(s) THEN 0 - v ELSE v

\* C7: for bare decimals, with or without a leading minus sign,
\* extract_number_and_unit yields the signed value (so the number of a negative
\* answer is not the positive number of its digits), and two answers that
\* differ by 0.001 or more do not match under a numeric type.
C7_SignedValuesKept ==
    /\ pc = "extracted" /\ SignedValue(answer1) < 0
           => extracted.num # PyFloat(Magnitude(answer1)).val
    /\ pc = "matched"
          /\ Abs(SignedValue(answer1) - SignedValue(answer2))
                 >= Pow10(SignedScale - 3)
           => ~matched

(***************************************************************************)
(* A measure is a numeral, whitespace and a token.                         *)
(***************************************************************************)
NumeralEnd(s) ==
    CHOOSE j \in 1..(Len(s) + 1) :
        /\ \A k \in 1..(j - 1) : s[k] \in Digits \/ s[k] = "."
        /\ j = Len(s) + 1 \/ ~(s[j] \in Digits \/ s[j] = ".")
NumeralOf(s) == SubSeq(s, 1, NumeralEnd(s) - 1)
TokenOf(s) == From(s, SkipSpaces(s, NumeralEnd(s)))

\* C9: for a number followed, after optional whitespace, by a token of the
\* unit vocabulary in any letter case, extract_number_and_unit returns the
\* number and the whole token in lower case; with no token it returns the
\* number and None.
C9_EveryTokenRecognized ==
    pc = "extracted" =>
        /\ extracted.num = PyFloat(NumeralOf(answer1)).val
        /\ extracted.unit = IF TokenOf(answer1) = <<>> THEN None
                            ELSE Lower(TokenOf(answer1))

(***************************************************************************)
(* The conversion table: unit, operation, factor.                          *)
(***************************************************************************)
ConversionTable ==
    { [unit |-> <<"k", "m">>, times |-> TRUE,  factor |-> 1000],
      [unit |-> <<"c", "m">>, times |-> FALSE, factor |-> 100],
      [unit |-> <<"m", "m">>, times |-> FALSE, factor |-> 1000],
      [unit |-> <<"g">>,      times |-> FALSE, factor |-> 1000],
      [unit |-> <<"m", "g">>, times |-> FALSE, factor |-> 1000000],
      [unit |-> <<"m", "s">>, times |-> FALSE, factor |-> 1000] }

\* C10: convert_to_base_unit applies the row of the conversion table whose
\* unit is the given unit in lower case, and returns the value unchanged for
\* a unit without a row, for the empty unit and for None.
C10_ConversionTable ==
    pc = "converted" =>
        /\ \A row \in ConversionTable :
               unit_arg # None /\ Lower(unit_arg) = row.unit =>
                   converted = IF row.times
                               THEN FMul(extracted.num, row.factor)
                               ELSE FDiv(extracted.num, row.factor)
        /\ (unit_arg = None
                \/ \A row \in ConversionTable : Lower(unit_arg) # row.unit)
               => converted = extracted.num

\* a value in MG has been divided by 1,000,000
C10_Witness ==
    /\ pc = "converted"
    /\ unit_arg = <<"M", "G">>
    /\ converted = FDiv(extracted.num, 1000000)
    /\ converted # extracted.num

\* the value converted by the row of the conversion table for the unit
TableConvert(value, unit) ==
    IF \E row \in ConversionTable : row.unit = unit
    THEN With(CHOOSE row \in ConversionTable : row.unit = unit, LAMBDA row :
             IF row.times THEN FMul(value, row.factor)
             ELSE FDiv(value, row.factor))
    ELSE value

\* C11: for a numeric type, normalize_answer of a number followed by a token
\* of the unit vocabulary is the serialization of the number converted to its
\* base unit by the conversion table, mg and ms included.
C11_NormalizeConvertsUnit ==
    pc = "normalized" /\ answer_type \in NumericTypes /\ TokenOf(answer1) # <<>> =>
        norm = Lower(FormatNumber(
                   TableConvert(PyFloat(NumeralOf(answer1)).val,
                                Lower(TokenOf(answer1)))))

\* the first run of digits and dots of s, empty if s has none
FirstNumberRun(s) ==
    IF \A i \in 1..Len(s) : ~IsNumberChar(s[i]) THEN <<>>
    ELSE With(CHOOSE i \in 1..Len(s) :
                  /\ IsNumberChar(s[i])
                  /\ \A k \in 1..(i - 1) : ~IsNumberChar(s[k]),
              LAMBDA i :
         SubSeq(s, i, (CHOOSE j \in (i + 1)..(Len(s) + 1) :
                          /\ \A k \in i..(j - 1) : IsNumberChar(s[k])
                          /\ j = Len(s) + 1 \/ ~IsNumberChar(s[j])) - 1))

\* no number can be parsed from s: neither its first run of digits and dots
\* nor the whole of it is a numeral
NoNumber(s) == ~IsNumeral(FirstNumberRun(s)) /\ ~IsNumeral(Strip(s))

\* C12: for every answer and answer type normalize_answer returns a string
\* and extract_number_and_unit a pair, neither raises; when no number can be
\* parsed normalize_answer returns the cleaned answer in lower case and
\* extract_number_and_unit returns (None, None).
C12_NeverFatal ==
    /\ pc = "normalized" =>
           /\ norm # OverflowError
           /\ NoNumber(Cleaned(answer1)) => norm = Lower(Cleaned(answer1))
    /\ pc = "extracted" =>
           /\ extracted \in [num : [man : Seq({-1, 0, 1}), exp : Int],
                             unit : Seq(STRING)]
           /\ NoNumber(answer1) => extracted = [num |-> NoneNum, unit |-> None]

\* an unsigned numeral with at most PassScale fractional digits, as a count
\* of 10^-PassScale
PassExact(s) ==
    LET p == NumeralParts(s)
    IN  DigitsToInt(p.digits) * Pow10(PassScale - p.frac)

\* C13: a number followed by a composite or physical unit matches a number
\* without unit, under a numeric type, exactly when the two numbers differ by
\* less than 0.001; the unit scales nothing.
C13_CompositePassThrough ==
    /\ pc = "matched" =>
           (matched <=> Abs(PassExact(NumeralOf(answer1)) - PassExact(answer2))
                            < Pow10(PassScale - 3))
    /\ pc = "extracted" =>
           convert_to_base_unit(extracted.num, extracted.unit) = extracted.num

(***************************************************************************)
(* Counts over the data, for the claims about the aggregators.             *)
(***************************************************************************)
\* the sum of f over the keys
RECURSIVE SumOf(_, _)
SumOf(f, keys) ==
    IF keys = {} THEN 0
    ELSE LET k == CHOOSE key \in keys : TRUE
         IN  f[k] + SumOf(f, keys \ {k})

\* the results that have a problem
ResultsWithProblem == DOMAIN results \cap DOMAIN problems

\* the judged answer of a problem matches its correct answer
WinnerMatches(id) ==
    answers_match(results[id], problems[id].correct_answer,
                  problems[id].answer_type)

\* C14: calculate_system_metrics counts a result that has a problem as
\* correct exactly when answers_match(winning_answer, correct_answer,
\* answer_type) holds, in correct_final_answers and in the counter of the
\* problem's category; "34 ways" against "34" under integer is counted, and
\* the correct counts of the categories add up to correct_final_answers.
C14_CorrectWhenAnswersMatch ==
    pc = "system_metrics" =>
        /\ metrics.correct_final_answers =
               Cardinality({id \in ResultsWithProblem : WinnerMatches(id)})
        /\ DOMAIN metrics.by_category =
               {problems[id].category : id \in ResultsWithProblem}
        /\ \A c \in DOMAIN metrics.by_category :
               metrics.by_category[c].correct =
                   Cardinality({id \in ResultsWithProblem :
                                   /\ problems[id].category = c
                                   /\ WinnerMatches(id)})
        /\ (\A id \in ResultsWithProblem :
                /\ results[id] = ThirtyFourWays
                /\ problems[id] = MathProblem)
               => metrics.correct_final_answers
                      = Cardinality(ResultsWithProblem)
        /\ SumOf([c \in DOMAIN metrics.by_category |->
                     metrics.by_category[c].correct],
                 DOMAIN metrics.by_category)
               = metrics.correct_final_answers

\* "34 ways" has been counted correct against "34", once overall and once
\* under math
C14_Witness ==
    /\ pc = "system_metrics"
    /\ problems = <<MathProblem>>
    /\ results = <<ThirtyFourWays>>
    /\ metrics.correct_final_answers = 1
    /\ metrics.by_category["math"].correct = 1

\* C15: overall_accuracy is correct_final_answers divided by the number of
\* results that were scored, the sum of the totals of the categories (0.0 if
\* none was), also when results holds ids that problems does not.
C15_AccuracyOverScored ==
    pc = "system_metrics" =>
        LET scored == SumOf([c \in DOMAIN metrics.by_category |->
                                metrics.by_category[c].total],
                            DOMAIN metrics.by_category)
        IN  /\ scored = Cardinality(ResultsWithProblem)
            /\ metrics.overall_accuracy =
                   IF scored = 0 THEN FZero
                   ELSE FDiv(FFromInt(metrics.correct_final_answers), scored)

\* 1.0
FOne == FFromInt(1)

\* a ratio reported with its numerator and denominator counts: 0.0 over a
\* denominator of 0, else at most 1 with the numerator within the denominator
RatioInRange(ratio, numerator, denominator) ==
    /\ numerator \in 0..denominator
    /\ denominator = 0 => ratio = FZero
    /\ ~FLess(FOne, ratio)

\* C16: every ratio an aggregator reports is 0.0 when its denominator count
\* is 0, and else lies in [0, 1] with its numerator count within its
\* denominator count, whatever the data, empty collections included (a
\* division by zero would stop the run).
C16_RatiosInRange ==
    /\ pc = "system_metrics" =>
           /\ RatioInRange(metrics.overall_accuracy,
                           metrics.correct_final_answers,
                           metrics.processed_problems)
           /\ \A c \in DOMAIN metrics.by_category :
                  RatioInRange(metrics.by_category[c].accuracy,
                               metrics.by_category[c].correct,
                               metrics.by_category[c].total)
    /\ pc = "improvement_metrics" =>
           RatioInRange(metrics.improvement_rate, metrics.improved,
                        metrics.total_with_refinement)
    /\ pc = "consensus_metrics" =>
           RatioInRange(metrics.consensus_rate, metrics.full_consensus,
                        metrics.total)
    /\ pc = "judge_metrics" =>
           /\ RatioInRange(metrics.judge_accuracy, metrics.judge_correct,
                           metrics.total_disagreements)
           /\ RatioInRange(metrics.majority_vote_accuracy,
                           metrics.majority_vote_correct,
                           metrics.total_disagreements)
    /\ pc = "majority_vote" =>
           RatioInRange(metrics.accuracy, metrics.correct, metrics.total)

\* the judge was asked about problems on which the solvers agreed: no
\* disagreement to divide by, and an accuracy of 0.0
C16_Witness ==
    /\ pc = "judge_metrics"
    /\ DOMAIN results \cap DOMAIN problems \cap DOMAIN stage1_solutions # {}
    /\ metrics.total_disagreements = 0
    /\ metrics.judge_accuracy = FZero
    /\ metrics.majority_vote_accuracy = FZero

\* the problems calculate_consensus_rate counts: those with first-stage
\* solutions and a problem record, and with a result if results are given
ConsensusIds ==
    {id \in DOMAIN stage1_solutions \cap DOMAIN problems :
        results = NoResults \/ id \in DOMAIN results}

\* the number of distinct normalized first-stage answers of a problem
DistinctNormalized(id) ==
    Cardinality({normalize_answer(stage1_solutions[id][k],
                                  problems[id].answer_type) :
                    k \in 1..Len(stage1_solutions[id])})

\* the counted problems with three first-stage answers, n of them distinct
ThreeWithDistinct(n) ==
    {id \in ConsensusIds :
        Len(stage1_solutions[id]) = 3 /\ DistinctNormalized(id) = n}

\* C17: when every counted problem has three first-stage answers, the
\* problems with 1, 2 and 3 distinct normalized answers are the counts
\* full_consensus, partial_consensus and no_consensus; the three counts add
\* up to total, and consensus_rate is full_consensus / total.
C17_ConsensusClasses ==
    (/\ pc = "consensus_metrics"
     /\ \A id \in ConsensusIds : Len(stage1_solutions[id]) = 3) =>
        /\ metrics.total = Cardinality(ConsensusIds)
        /\ metrics.full_consensus = Cardinality(ThreeWithDistinct(1))
        /\ metrics.partial_consensus = Cardinality(ThreeWithDistinct(2))
        /\ metrics.no_consensus = Cardinality(ThreeWithDistinct(3))
        /\ metrics.full_consensus + metrics.partial_consensus
               + metrics.no_consensus = metrics.total
        /\ metrics.consensus_rate =
               IF metrics.total = 0 THEN FZero
               ELSE FDiv(FFromInt(metrics.full_consensus), metrics.total)

\* one problem with the answers 34, 34.0, 34 and one with 34, 35.0, 34:
\* one full and one partial consensus
C17_Witness ==
    /\ pc = "consensus_metrics"
    /\ stage1_solutions = <<SolverList(3, 1), SolverList(3, 2)>>
    /\ metrics.total = 2
    /\ metrics.full_consensus = 1
    /\ metrics.partial_consensus = 1
    /\ metrics.no_consensus = 0

\* C18: only the problems with first-stage answers of exactly three solvers
\* are counted: a problem with no first-stage solutions, with an empty dict
\* of them, or with fewer or more than three answers adds nothing to total
\* nor to the three consensus counts.
C18_ExactlyThreeCandidates ==
    pc = "consensus_metrics" =>
        /\ metrics.total =
               Cardinality({id \in ConsensusIds :
                               Len(stage1_solutions[id]) = 3})
        /\ metrics.full_consensus + metrics.partial_consensus
               + metrics.no_consensus =
               Cardinality({id \in ConsensusIds :
                               Len(stage1_solutions[id]) = 3})

\* the problems calculate_improvement_rate counts
RefinedIds ==
    DOMAIN stage1_solutions \cap DOMAIN problems \cap DOMAIN refined_solutions

\* the answer of a solver matches the correct answer of the problem
SolverRight(id, answer) ==
    answers_match(answer, problems[id].correct_answer,
                  problems[id].answer_type)

\* the refined answer of a solver, its first answer if it has none
AfterRefinement(id, solver) ==
    IF solver \in DOMAIN refined_solutions[id]
    THEN refined_solutions[id][solver]
    ELSE stage1_solutions[id][solver]

\* some solver of the problem went from wrong to right
SomeImproved(id) ==
    \E solver \in 1..Len(stage1_solutions[id]) :
        /\ ~SolverRight(id, stage1_solutions[id][solver])
        /\ SolverRight(id, AfterRefinement(id, solver))

\* some solver of the problem went from right to wrong
SomeWorsened(id) ==
    \E solver \in 1..Len(stage1_solutions[id]) :
        /\ SolverRight(id, stage1_solutions[id][solver])
        /\ ~SolverRight(id, AfterRefinement(id, solver))

\* C19: every counted problem is in exactly one of improved, worsened and
\* unchanged, which add up to total_with_refinement: improved if some solver
\* went from wrong to right, even if another went from right to wrong;
\* worsened if none improved and some solver went from right to wrong;
\* unchanged otherwise.
C19_ImprovedFirst ==
    pc = "improvement_metrics" =>
        /\ metrics.total_with_refinement = Cardinality(RefinedIds)
        /\ metrics.improved + metrics.worsened + metrics.unchanged
               = metrics.total_with_refinement
        /\ metrics.improved =
               Cardinality({id \in RefinedIds : SomeImproved(id)})
        /\ metrics.worsened =
               Cardinality({id \in RefinedIds :
                               ~SomeImproved(id) /\ SomeWorsened(id)})
        /\ metrics.unchanged =
               Cardinality({id \in RefinedIds :
                               ~SomeImproved(id) /\ ~SomeWorsened(id)})

\* the first solver went from right to wrong and the second from wrong to
\* right: the problem is improved
C19_Witness ==
    /\ pc = "improvement_metrics"
    /\ problems = <<MathProblem>>
    /\ stage1_solutions = << <<ThirtyFour, ThirtyFive>> >>
    /\ refined_solutions = << <<ThirtyFive, ThirtyFour>> >>
    /\ metrics.improved = 1
    /\ metrics.worsened = 0
    /\ metrics.unchanged = 0

\* the judged problems that have a problem record and first-stage solutions
JudgedIds ==
    DOMAIN results \cap DOMAIN problems \cap DOMAIN stage1_solutions

\* the judged problems whose first-stage answers normalize to more than one
\* value
Disagreeing == {id \in JudgedIds : DistinctNormalized(id) > 1}

\* some normalized first-stage answer of the problem matches the correct one
SomeAnswerMatches(id) ==
    \E k \in 1..Len(stage1_solutions[id]) :
        answers_match(normalize_answer(stage1_solutions[id][k],
                                       problems[id].answer_type),
                      problems[id].correct_answer, problems[id].answer_type)

\* C20: total_disagreements is the number of problems in results, problems
\* and the first-stage solutions whose first-stage answers normalize to more
\* than one value; judge_correct and majority_vote_correct count such
\* problems only, so a problem with unanimous first-stage answers adds to
\* neither.
C20_DisagreementsOnly ==
    pc = "judge_metrics" =>
        /\ metrics.total_disagreements = Cardinality(Disagreeing)
        /\ metrics.judge_correct =
               Cardinality({id \in Disagreeing : WinnerMatches(id)})
        /\ metrics.majority_vote_correct <=
               Cardinality({id \in Disagreeing : SomeAnswerMatches(id)})
        /\ (Disagreeing = {}) =>
               /\ metrics.judge_correct = 0
               /\ metrics.majority_vote_correct = 0

\* a unanimous problem and a disagreeing one, both judged right: only the
\* second is counted
C20_Witness ==
    /\ pc = "judge_metrics"
    /\ DOMAIN results = {1, 2}
    /\ DOMAIN problems = {1, 2}
    /\ stage1_solutions = <<SolverList(3, 1), SolverList(3, 2)>>
    /\ WinnerMatches(1)
    /\ metrics.total_disagreements = 1
    /\ metrics.judge_correct = 1
    /\ metrics.majority_vote_correct = 1

\* the normalized first-stage answers of a problem, in the order of its
\* solvers
NormalizedAnswers(id) ==
    [k \in 1..Len(stage1_solutions[id]) |->
        normalize_answer(stage1_solutions[id][k], problems[id].answer_type)]

\* how many solvers of the problem gave the normalized answer a
Votes(id, a) ==
    Cardinality({k \in 1..Len(stage1_solutions[id]) :
                    NormalizedAnswers(id)[k] = a})

\* the first solver of the problem that gave the normalized answer a
FirstVote(id, a) ==
    CHOOSE k \in 1..Len(stage1_solutions[id]) :
        /\ NormalizedAnswers(id)[k] = a
        /\ \A j \in 1..(k - 1) : NormalizedAnswers(id)[j] # a

\* a is the plurality answer of the problem: no answer has more votes, and
\* the answers with as many votes were first given by later solvers
IsPlurality(id, a) ==
    /\ Votes(id, a) > 0
    /\ \A k \in 1..Len(stage1_solutions[id]) :
           \/ Votes(id, NormalizedAnswers(id)[k]) < Votes(id, a)
           \/ /\ Votes(id, NormalizedAnswers(id)[k]) = Votes(id, a)
              /\ FirstVote(id, a) <= k

\* the plurality answer of the problem matches its correct answer
PluralityMatches(id) ==
    \E k \in 1..Len(stage1_solutions[id]) :
        /\ IsPlurality(id, NormalizedAnswers(id)[k])
        /\ answers_match(NormalizedAnswers(id)[k],
                         problems[id].correct_answer,
                         problems[id].answer_type)

\* C21: the answer calculate_majority_vote_baseline records for a problem is
\* its most frequent normalized first-stage answer, the one first given when
\* several are most frequent, and majority_vote_correct of
\* calculate_judge_accuracy counts the disagreeing problems whose answer
\* chosen this way matches the correct answer.
C21_PluralityFirstEncountered ==
    /\ pc = "majority_vote" =>
           \A id \in DOMAIN metrics.answers :
               IsPlurality(id, metrics.answers[id])
    /\ pc = "judge_metrics" =>
           metrics.majority_vote_correct =
               Cardinality({id \in DOMAIN results \cap DOMAIN problems
                                   \cap DOMAIN stage1_solutions :
                               /\ DistinctNormalized(id) > 1
                               /\ PluralityMatches(id)})

\* three pairwise distinct answers: the first one is recorded
C21_Witness ==
    /\ pc = "majority_vote"
    /\ 1 \in DOMAIN metrics.answers
    /\ stage1_solutions[1] = SolverList(3, 3)
    /\ DistinctNormalized(1) = 3
    /\ metrics.answers[1] = ThirtyFour

\* the problems with three first-stage answers that match each other pairwise
\* under the type of the problem but do not all normalize to the same string
NearButDistinct ==
    {id \in DOMAIN stage1_solutions \cap DOMAIN problems :
        /\ Len(stage1_solutions[id]) = 3
        /\ \A j, k \in 1..3 :
               answers_match(stage1_solutions[id][j], stage1_solutions[id][k],
                             problems[id].answer_type)
        /\ DistinctNormalized(id) > 1}

\* C22: consensus is counted on the normalized strings alone: a problem whose
\* three first-stage answers match each other within the tolerance but
\* normalize to different strings (1.0004, 1.0, 1.0002) is not a full
\* consensus, and calculate_judge_accuracy counts it as a disagreement.
C22_ConsensusOnStrings ==
    /\ pc = "consensus_metrics" =>
           /\ metrics.full_consensus =
                  Cardinality({id \in ConsensusIds :
                                  DistinctNormalized(id) = 1})
           /\ metrics.partial_consensus + metrics.no_consensus >=
                  Cardinality(NearButDistinct \cap ConsensusIds)
    /\ pc = "judge_metrics" =>
           metrics.total_disagreements >=
               Cardinality(NearButDistinct \cap DOMAIN results)

\* 1.0004, 1.0 and 1.0002 match each other and are no consensus
C22_Witness ==
    /\ pc = "consensus_metrics"
    /\ 1 \in NearButDistinct \cap ConsensusIds
    /\ Normalized(problems, stage1_solutions, 1) =
           << <<"1", ".", "0", "0", "0", "4">>, <<"1">>,
              <<"1", ".", "0", "0", "0", "2">> >>
    /\ DOMAIN stage1_solutions = {1}
    /\ metrics.full_consensus = 0
    /\ metrics.no_consensus = 1

\* the counted problems whose three first-stage answers are the same string
SameRawAnswer ==
    {id \in ConsensusIds :
        /\ Len(stage1_solutions[id]) = 3
        /\ stage1_solutions[id][2] = stage1_solutions[id][1]
        /\ stage1_solutions[id][3] = stage1_solutions[id][1]}

\* C23: when the three first-stage answers of every counted problem are one
\* and the same string, calculate_majority_vote_baseline counts a problem as
\* correct exactly when answers_match holds of that string, the correct
\* answer and the answer type: scoring the normalized answer gives the
\* verdict of scoring the raw answer.
C23_NormalizedSameVerdict ==
    (pc = "majority_vote" /\ SameRawAnswer = ConsensusIds) =>
        metrics.correct =
            Cardinality({id \in SameRawAnswer :
                            answers_match(stage1_solutions[id][1],
                                          problems[id].correct_answer,
                                          problems[id].answer_type)})

\* the results that have a problem and a winning answer that is not empty
Answered == {id \in ResultsWithProblem : results[id] # <<>>}

\* C24: a result without a judgment or with an empty winning answer is
\* counted among the processed problems and never as correct, whatever the
\* answer type, when the correct answer of its problem is not empty.
C24_AbsentNeverCorrect ==
    (pc = "system_metrics"
        /\ \A id \in DOMAIN problems : problems[id].correct_answer # <<>>) =>
        /\ metrics.processed_problems = Cardinality(DOMAIN results)
        /\ metrics.correct_final_answers =
               Cardinality({id \in Answered : WinnerMatches(id)})

\* the answer holds no digit and no dot
NoDigit(s) == \A i \in 1..Len(s) : s[i] \notin Digits \cup {"."}

\* C25: normalize_answer applied to its own result returns it unchanged under
\* the string type, and under the numeric types for answers without a
\* number, repeated currency markers or unit words included.
C25_IdempotentText ==
    (pc = "renormalized" /\ (answer_type = "string" \/ NoDigit(answer1))) =>
        /\ renorm = norm
        /\ normalize_answer(renorm, answer_type) = renorm

\* the passes of the loop that sent a request
AttemptsMade == {sent[i].attempt : i \in DOMAIN sent}

\* call_llm has returned or raised
LlmDone == pc \in {"llm_returned", "llm_raised"}

\* the attempt whose result was returned or whose exception was raised
OutcomeAttempt ==
    IF pc = "llm_returned" THEN outcome.returned.attempt
    ELSE IF pc = "llm_raised" THEN outcome.raised.attempt
    ELSE -1

\* the attempt of the last request sent
LastAttempt == IF sent = <<>> THEN -1 ELSE sent[Len(sent)].attempt

\* what holds of call_llm at every moment
BoundedRetry ==
    /\ Cardinality(AttemptsMade) <= MAX_RETRIES
    /\ AttemptsMade \subseteq 0..(MAX_RETRIES - 1)
    /\ pc = "llm_returned" =>
           /\ OutcomeAttempt = attempt
           /\ LastAttempt = attempt
           /\ AttemptsMade = 0..attempt
    /\ pc = "llm_raised" =>
           /\ AttemptsMade = 0..(MAX_RETRIES - 1)
           /\ OutcomeAttempt = MAX_RETRIES - 1

\* C26: call_llm makes at most MAX_RETRIES (3) attempts; it returns the
\* result of the first attempt that succeeds and makes no attempt after it;
\* when every attempt fails it raises the exception of the last one; and it
\* always returns or raises, each API call returning or raising.
C26_BoundedRetry == []BoundedRetry /\ <>LlmDone

\* two attempts failed and the third returned
C26_Witness ==
    /\ pc = "llm_returned"
    /\ OutcomeAttempt = MAX_RETRIES - 1
    /\ AttemptsMade = 0..(MAX_RETRIES - 1)

\* the JSON instructions in the content of a message
JsonOnlyCount(message) ==
    Cardinality({i \in DOMAIN message.content : message.content[i] = JsonOnly})

\* the content of a message without the JSON instructions
WithoutJsonOnly(message) ==
    SelectSeq(message.content, LAMBDA text : text # JsonOnly)

\* C30: call_llm leaves the messages of its caller as they were passed, the
\* list and the content of every message, also after the response_format
\* fallback and after a retry; every request carries the prompt that was
\* passed with at most one JSON instruction added.
C30_MessagesUnchanged ==
    /\ \A i \in DOMAIN messages : dicts[messages[i]].content = <<Prompt>>
    /\ \A k \in DOMAIN sent :
           \A i \in DOMAIN sent[k].messages :
               /\ WithoutJsonOnly(sent[k].messages[i]) = <<Prompt>>
               /\ JsonOnlyCount(sent[k].messages[i]) <= 1

\* the stages whose function returned in this run
Completed ==
    {run_results["stages_completed"][i] :
        i \in DOMAIN run_results["stages_completed"]}

\* the stages whose function was called
Executed == {executed[i] : i \in DOMAIN executed}

\* the stages that were skipped with their saved output loaded
Loaded == held \cap skip_stages

\* the stages 0 to 3 that neither completed nor were loaded
Missing == (0..3) \ (Completed \cup Loaded)

\* a sequence of stages in increasing order
Increasing(s) == \A i, j \in DOMAIN s : i < j => s[i] < s[j]

\* C27: the stages run in the order 0, 1, 2, 3, 4, each one only after every
\* earlier stage completed in this run or was skipped and loaded from its
\* file; when one of the stages 0 to 3 raises or the file of a skipped one is
\* missing, no later stage runs, stages_completed lists the stages that
\* succeeded in increasing order, and the record returned has success false
\* and a non-empty list of errors.
C27_StagesInOrder ==
    /\ pc \in {StagePc(k) : k \in Stages} \cup {"pipeline_returned"}
    /\ Increasing(executed)
    /\ Increasing(run_results["stages_completed"])
    /\ Completed \subseteq Executed
    /\ \A k \in Executed : \A j \in 0..(k - 1) : j \in Completed \cup Loaded
    /\ (pc = "pipeline_returned" /\ Missing # {}) =>
           /\ \A k \in Executed : \A j \in Missing : k <= j
           /\ Completed = Executed \ Missing
           /\ run_results["success"] = FALSE
           /\ run_results["errors"] # <<>>

\* stage 2 raised after stages 0 and 1: stages 3 and 4 did not run
C27_Witness ==
    /\ pc = "pipeline_returned"
    /\ skip_stages = {}
    /\ executed = <<0, 1, 2>>
    /\ run_results["stages_completed"] = <<0, 1>>
    /\ run_results["success"] = FALSE
    /\ Len(run_results["errors"]) = 2

\* the stages of the error entries of the record
ErrorStages ==
    [i \in DOMAIN run_results["errors"] |-> run_results["errors"][i].stage]

\* stages 0 to 3 completed in this run and make_judgment raised
JudgmentFailed ==
    /\ pc = "pipeline_returned"
    /\ (0..3) \subseteq Completed
    /\ 4 \in Executed \ Completed

\* C28: when stages 0 to 3 succeed and make_judgment raises, the record
\* returned keeps the outputs of stages 0 to 3 with stages_completed
\* [0, 1, 2, 3], has one error entry, of stage 4, and no fatal entry, has no
\* winner and no winning_answer, and has success false; and in every record
\* returned success is true exactly when errors is empty.
C28_JudgmentFailureKept ==
    /\ pc = "pipeline_returned" =>
           (run_results["success"] <=> run_results["errors"] = <<>>)
    /\ JudgmentFailed =>
           /\ run_results["stages_completed"] = <<0, 1, 2, 3>>
           /\ {OutputKey(k) : k \in 0..3} \subseteq DOMAIN run_results
           /\ OutputKey(4) \notin DOMAIN run_results
           /\ ErrorStages = <<"4">>
           /\ "winner" \notin DOMAIN run_results
           /\ "winning_answer" \notin DOMAIN run_results
           /\ run_results["success"] = FALSE

\* the four stages ran and the judgment failed
C28_Witness ==
    /\ JudgmentFailed
    /\ executed = <<0, 1, 2, 3, 4>>
    /\ run_results["errors"] = <<ErrorEntry(4)>>

\* the three solvers that were assigned
AssignedSolvers ==
    <<assignments.solver_1, assignments.solver_2, assignments.solver_3>>

\* the assessment at position i comes before the one at position j by solver
\* score: a higher score, or the same score and earlier in the list
SolverBefore(i, j) ==
    \/ FLess(Score(self_assessments[j], "Solver"),
             Score(self_assessments[i], "Solver"))
    \/ /\ Score(self_assessments[j], "Solver")
              = Score(self_assessments[i], "Solver")
       /\ i < j

\* C29: with four assessments or more, solver_1, solver_2 and solver_3 are
\* three different assessments, the three with the highest boosted solver
\* scores in that order, equal scores in the order of the list, and the judge
\* is none of the three.
C29_DistinctRoles ==
    (pc = "roles_assigned" /\ Len(self_assessments) >= 4) =>
        /\ \A k \in 1..3 : AssignedSolvers[k] \in DOMAIN self_assessments
        /\ \A k, m \in 1..3 : k # m => AssignedSolvers[k] # AssignedSolvers[m]
        /\ SolverBefore(AssignedSolvers[1], AssignedSolvers[2])
        /\ SolverBefore(AssignedSolvers[2], AssignedSolvers[3])
        /\ \A j \in DOMAIN self_assessments :
               j \notin {AssignedSolvers[k] : k \in 1..3} =>
                   SolverBefore(AssignedSolvers[3], j)
        /\ assignments.judge \in DOMAIN self_assessments
        /\ assignments.judge \notin {AssignedSolvers[k] : k \in 1..3}

\* four equal assessments: the best judge is the first solver, and the
\* fourth assessment becomes the judge
C29_Witness ==
    /\ pc = "roles_assigned"
    /\ Len(self_assessments) = 4
    /\ \A i \in 2..4 : self_assessments[i] = self_assessments[1]
    /\ AssignedSolvers = <<1, 2, 3>>
    /\ assignments.judge = 4

====
